---- MODULE Spec2Model ----
(***************************************************************************)
(* State-machine model of the HLS streamer (src/src/streamer.cpp).         *)
(*                                                                         *)
(* The pipeline thread is modelled by a program counter `pc` that walks    *)
(* through main()'s reconnect loop, run_loop() and distribute_outputs().   *)
(* The signal handler is a second process whose only step stores TRUE in   *)
(* g_stop_requested.  Results of the media library (libav) are inputs      *)
(* chosen nondeterministically by \E in each step.                         *)
(*                                                                         *)
(* int64 timestamps are modelled as integers of a small range around 0;    *)
(* the inputs are drawn from a range in which no sum leaves the int64      *)
(* range in the code, so the arithmetic is the mathematical one.  The int   *)
(* product of set_hls_output_options keeps its 32-bit width (IntMul60).    *)
(*                                                                         *)
(* Specifications: Spec (the controller), SpecCopy (the copy-path          *)
(* timestamp repair), SpecPath (utils::normalize_output_path) and SpecHls  *)
(* (utils::set_hls_output_options).                                        *)
(***************************************************************************)
EXTENDS Integers, Sequences, FiniteSets, TLC

(***************************************************************************)
(* Bounds of the model.                                                    *)
(***************************************************************************)
MaxOpens == 3        \* open_input calls per run of the process
MaxPackets == 1      \* packets read per session
MaxFrames == 2       \* frames the decoder returns for one packet
MaxDelay == 1        \* largest --reconnect-sec given on the command line
MaxTs == 1           \* packet timestamps are AV_NOPTS_VALUE or in -MaxTs..MaxTs
MaxDur == 1          \* packet durations are in -1..MaxDur
MaxTimeBaseRatio == 2  \* an output time base is 1..MaxTimeBaseRatio times finer
MaxCopyPackets == 2  \* packets of the copy-path harness SpecCopy
MaxPathLen == 2      \* characters of the output path given on the command line
MaxDirs == 1         \* directories that exist among the paths looked at
MaxNormalize == 2    \* applications of normalize_output_path in SpecPath
MaxMinutes == 5      \* --*-max-keep-minutes values are in -1..MaxMinutes
MaxSegSec == 4       \* --*-hls-time values are in -1..MaxSegSec

(***************************************************************************)
(* Program constants.                                                      *)
(***************************************************************************)
LiveReconnectSec == 5     \* reconnect_sec forced for rtsp/rtmp inputs
NbStreams == 2            \* streams of the modelled input: 0 video, 1 audio/other
ExitOk == 0
ExitInputOpen == 2
ExitDiscovery == 3
ExitOutput == 4
ExitAlloc == 5

\* AV_NOPTS_VALUE is INT64_MIN: smaller than every timestamp of the model.
AV_NOPTS_VALUE == -1000

\* Return codes.  0 is success; every AVERROR_* is negative in the code.
RET_OK == "0"
AVERROR_EOF == "AVERROR_EOF"
AVERROR_EXIT == "AVERROR_EXIT"
AVERROR_EAGAIN == "AVERROR(EAGAIN)"
AVERROR_ETIMEDOUT == "AVERROR(ETIMEDOUT)"
AVERROR_EIO == "AVERROR(EIO)"
AVERROR_ENOMEM == "AVERROR(ENOMEM)"
AVERROR_EINVAL == "AVERROR(EINVAL)"
AVERROR_UNKNOWN == "AVERROR_UNKNOWN"
IsNegative(r) == r # RET_OK

\* The static ladder of main().
Renditions ==
  <<[name |-> "low", width |-> 426, height |-> 240, video_bitrate |-> 400000],
    [name |-> "mid", width |-> 854, height |-> 480, video_bitrate |-> 1200000],
    [name |-> "high", width |-> 1280, height |-> 720, video_bitrate |-> 2500000]>>
RIdx == 1..Len(Renditions)

VARIABLES
  pc,                \* position of the pipeline thread
  g_stop_requested,  \* the atomic stop flag
  live_input,        \* is_live_input(input_url)
  reconnect_sec,     \* effective reconnect delay (after the live-input default)
  args,              \* the values of the command line as parsed
  output_path,       \* main()'s output_path
  dirs,              \* the paths for which stat() reports a directory
  hls_list_size,     \* hls_list_size entry given to the copy muxer and to the
                     \* rendition muxers
  ret,               \* main()'s ret
  exit_code,         \* main()'s exit_code
  state,             \* the StreamState of the current session
  pkt,               \* run_loop()'s read packet
  loop_ret,          \* run_loop()'s ret
  frames,            \* frames received from the decoder for the packet in flight
  \* history variables (observations, never read by the program)
  outcome,           \* what run_loop() returned in the current session
  fault,             \* the fault that ended the current session attempt
  open_attempts,     \* number of open_input calls so far
  open_log,          \* open attempts and sleeps since the last successful open
  slept,             \* seconds of the sleep in progress / last finished
  lost,              \* resources that went out of scope while still held
  stop_where,        \* where the thread was when the flag was first set: "in_flight"
                     \* (a packet read and not yet fully handled), "idle" (elsewhere
                     \* in run_loop's loop) or "none" (outside the loop, or not set)
  reads_after_stop,  \* av_read_frame calls begun after that
  opens_after_stop,  \* open_input calls begun after that
  events,            \* what was done for the packet in flight (cleared when the
                     \* loop tests the stop flag again or is left)
  copy_hist,         \* last copy-path repair: packet in, packet out, cursor before
  path_log           \* the values output_path had before each normalisation

vars == <<pc, g_stop_requested, live_input, reconnect_sec, args, output_path, dirs,
          hls_list_size, path_log, ret, exit_code, state,
          pkt, loop_ret, frames, outcome, fault, open_attempts, open_log, slept,
          lost, stop_where, reads_after_stop, opens_after_stop, events, copy_hist>>

(***************************************************************************)
(* Native handles.  ptr: the pointer variable is non-null; acq / rel: how  *)
(* often the object behind it was acquired / released in this session.     *)
(***************************************************************************)
NullHandle == [ptr |-> FALSE, acq |-> 0, rel |-> 0]
Acquire(h) == [ptr |-> TRUE, acq |-> h.acq + 1, rel |-> h.rel]
\* av_*_free(&p), avcodec_free_context(&p), avformat_close_input(&p): release, p = NULL
\* (a no-op when p is NULL)
FreeAndNull(h) ==
  IF h.ptr THEN [ptr |-> FALSE, acq |-> h.acq, rel |-> h.rel + 1] ELSE h
\* sws_freeContext(p), avformat_free_context(p): release, p keeps its value
FreeKeep(h) == [ptr |-> h.ptr, acq |-> h.acq, rel |-> h.rel + 1]
Held(h) == h.acq > h.rel

(***************************************************************************)
(* EncodeOutput and StreamState as main() declares them.                   *)
(***************************************************************************)
\* enc: the width, height and bit_rate init_video_encoder gave to venc.
NoEncoder == [width |-> 0, height |-> 0, bit_rate |-> 0]
EmptyOutput == [fmt |-> NullHandle, venc |-> NullHandle, sws |-> NullHandle,
                sws_frame |-> NullHandle, enc_pkt |-> NullHandle, astream |-> FALSE,
                flushed |-> FALSE, enc |-> NoEncoder]

\* A session state that starts with a counted packet and a used fallback value.
FreshState_Stale == [in_ctx |-> NullHandle, copy_ctx |-> NullHandle, vdec |-> NullHandle,
                     video_index |-> -1, audio_index |-> -1,
                     fallback_pts |-> 1, packet_count |-> 1,
                     copy_next_pts |-> <<>>, outputs |-> <<>>,
                     decoded |-> NullHandle, audio_pkt |-> NullHandle]

FreshState == [in_ctx |-> NullHandle, copy_ctx |-> NullHandle, vdec |-> NullHandle,
               video_index |-> -1, audio_index |-> -1,
               fallback_pts |-> 0, packet_count |-> 0,
               copy_next_pts |-> <<>>, outputs |-> <<>>,
               decoded |-> NullHandle, audio_pkt |-> NullHandle]

\* An AVPacket after av_packet_alloc / av_packet_unref.
BlankFields == [valid |-> FALSE, stream_index |-> 0, pts |-> AV_NOPTS_VALUE,
                dts |-> AV_NOPTS_VALUE, duration |-> 0]
NoPacket == [h |-> NullHandle, f |-> BlankFields]

NoCopyHist == [n |-> 0, in |-> BlankFields, out |-> BlankFields, before |-> <<>>,
               after |-> <<>>, prev |-> [seen |-> FALSE, dts |-> 0], last |-> <<>>]

\* Names of the handles a session still holds.
HeldIn(st, p) ==
  {<<n, 0>> : n \in {m \in {"in_ctx", "copy_ctx", "vdec", "decoded", "audio_pkt"} :
                       Held(st[m])}}
  \cup (IF Held(p.h) THEN {<<"pkt", 0>>} ELSE {})
  \cup {x \in {"fmt", "venc", "sws", "sws_frame", "enc_pkt"} \X DOMAIN st.outputs :
          Held(st.outputs[x[2]][x[1]])}

(***************************************************************************)
(* close_copy_output: trailer, avio_closep, avformat_free_context.         *)
(***************************************************************************)
close_copy_output(out_ctx) ==
  IF ~out_ctx.ptr THEN out_ctx ELSE FreeKeep(out_ctx)

(***************************************************************************)
(* close_reencode_outputs: per output, each member is released if non-null.*)
(***************************************************************************)
\* A close that forgets the scaler context.
close_one_output_KeepScaler(out) ==
  [out EXCEPT
     !.fmt = IF out.fmt.ptr THEN FreeAndNull(out.fmt) ELSE out.fmt,
     !.venc = IF out.venc.ptr THEN FreeAndNull(out.venc) ELSE out.venc,
     !.sws_frame = IF out.sws_frame.ptr THEN FreeAndNull(out.sws_frame) ELSE out.sws_frame,
     !.enc_pkt = IF out.enc_pkt.ptr THEN FreeAndNull(out.enc_pkt) ELSE out.enc_pkt]

close_one_output(out) ==
  [out EXCEPT
     !.fmt = IF out.fmt.ptr THEN FreeAndNull(out.fmt) ELSE out.fmt,
     !.venc = IF out.venc.ptr THEN FreeAndNull(out.venc) ELSE out.venc,
     !.sws_frame = IF out.sws_frame.ptr THEN FreeAndNull(out.sws_frame) ELSE out.sws_frame,
     !.sws = IF out.sws.ptr THEN FreeKeep(out.sws) ELSE out.sws,
     !.enc_pkt = IF out.enc_pkt.ptr THEN FreeAndNull(out.enc_pkt) ELSE out.enc_pkt]

close_reencode_outputs(outputs) ==
  [i \in DOMAIN outputs |-> close_one_output(outputs[i])]

(***************************************************************************)
(* The order of the statements that acquire and release the handles.  A    *)
(* handle is named <<member, i>>: i is the rendition, 0 for the members of *)
(* StreamState and for run_loop's pkt.                                     *)
(***************************************************************************)
\* Per rendition 1..n, the members in the order `members`.
PerRendition(members, n) ==
  [k \in 1..(n * Len(members)) |->
     <<members[((k - 1) % Len(members)) + 1], ((k - 1) \div Len(members)) + 1>>]

\* main(): open_input, avcodec_alloc_context3; open_outputs(): open_copy_output,
\* then init_reencode_output per rendition (context, encoder, packet);
\* main(): av_frame_alloc, av_packet_alloc; run_loop(): av_packet_alloc;
\* distribute_outputs(): init_sws_for_output per output (scaler, scratch frame).
AcquireOrder ==
  <<<<"in_ctx", 0>>, <<"vdec", 0>>, <<"copy_ctx", 0>>>>
  \o PerRendition(<<"fmt", "venc", "enc_pkt">>, Len(Renditions))
  \o <<<<"decoded", 0>>, <<"audio_pkt", 0>>, <<"pkt", 0>>>>
  \o PerRendition(<<"sws", "sws_frame">>, Len(Renditions))

\* A cleanup that closes each rendition in the reverse of its set-up.
ReleaseOrder_RenditionReversed ==
  <<<<"pkt", 0>>, <<"audio_pkt", 0>>, <<"decoded", 0>>, <<"copy_ctx", 0>>>>
  \o PerRendition(<<"sws_frame", "sws", "enc_pkt", "venc", "fmt">>, Len(Renditions))
  \o <<<<"vdec", 0>>, <<"in_ctx", 0>>>>

\* run_loop(): av_packet_free(&pkt); main(): av_packet_free(&state.audio_pkt),
\* av_frame_free(&state.decoded), close_copy_output, close_reencode_outputs (per
\* output: fmt, venc, sws_frame, sws, enc_pkt), avcodec_free_context,
\* avformat_close_input.
ReleaseOrder ==
  <<<<"pkt", 0>>, <<"audio_pkt", 0>>, <<"decoded", 0>>, <<"copy_ctx", 0>>>>
  \o PerRendition(<<"fmt", "venc", "sws_frame", "sws", "enc_pkt">>, Len(Renditions))
  \o <<<<"vdec", 0>>, <<"in_ctx", 0>>>>

HandleOf(st, p, x) ==
  IF x[1] = "pkt" THEN p.h
  ELSE IF x[2] = 0 THEN st[x[1]]
  ELSE IF x[2] \in DOMAIN st.outputs THEN st.outputs[x[2]][x[1]]
  ELSE NullHandle

\* The handles the session has acquired, in the order of the statements that
\* acquire them.
AcquiredIn(st, p) ==
  SelectSeq(AcquireOrder, LAMBDA x : HandleOf(st, p, x).acq > 0)
\* The handles the session has released, in the order of the statements that
\* release them.
ReleasedIn(st, p) ==
  SelectSeq(ReleaseOrder, LAMBDA x : HandleOf(st, p, x).rel > 0)

(***************************************************************************)
(* The reconnect_sec main() uses: the command-line value, replaced by 5    *)
(* for a live input when it is <= 0.                                       *)
(***************************************************************************)
EffectiveReconnect(live, cfg) ==
  IF live /\ cfg <= 0 THEN LiveReconnectSec ELSE cfg

(***************************************************************************)
(* utils::normalize_output_path.  A path is a sequence of characters;      *)
(* positions count from 1 and 0 stands for std::string::npos.              *)
(***************************************************************************)
IndexName == <<"i", "n", "d", "e", "x", ".", "m", "3", "u", "8">>
PlaylistExt == <<".", "m", "3", "u", "8">>

\* stat(path) == 0 && S_ISDIR
is_directory(path, d) == path \in d

find_last_of(path, c) ==
  LET hits == {i \in 1..Len(path) : path[i] = c}
  IN IF hits = {} THEN 0 ELSE CHOOSE i \in hits : \A j \in hits : j <= i

\* A normalisation that appends the extension without looking for one.
normalize_output_path_AlwaysExt(output_path_, d) ==
  IF output_path_ # <<>>
     /\ (output_path_[Len(output_path_)] = "/" \/ is_directory(output_path_, d))
    THEN LET dir == IF output_path_[Len(output_path_)] # "/"
                      THEN Append(output_path_, "/") ELSE output_path_
         IN dir \o IndexName
    ELSE output_path_ \o PlaylistExt

normalize_output_path(output_path_, d) ==
  IF output_path_ # <<>>
     /\ (output_path_[Len(output_path_)] = "/" \/ is_directory(output_path_, d))
    THEN LET dir == IF output_path_[Len(output_path_)] # "/"
                      THEN Append(output_path_, "/") ELSE output_path_
         IN dir \o IndexName
    ELSE LET slash == find_last_of(output_path_, "/")
             dot == find_last_of(output_path_, ".")
         IN IF dot = 0 \/ (slash # 0 /\ dot < slash)
              THEN output_path_ \o PlaylistExt
              ELSE output_path_

(***************************************************************************)
(* utils::set_hls_output_options: the hls_time and hls_list_size entries   *)
(* it puts into the dictionary.  `product` is max_keep_minutes * 60 as the *)
(* int multiplication produced it.                                         *)
(***************************************************************************)
INT_MAX == 2147483647
SecondsPerMinute == 60

\* An entry of the option dictionary.
Unset == [set |-> FALSE, value |-> 0]
Some(v) == [set |-> TRUE, value |-> v]

\* max_keep_minutes * 60 leaves the range of int.
Overflows(max_keep_minutes) == max_keep_minutes > INT_MAX \div SecondsPerMinute

\* max_keep_minutes * 60 in int; beyond INT_MAX the value a two's complement
\* build leaves (the product minus 2^32, for the values used here).
IntMul60(m) ==
  IF ~Overflows(m)
    THEN m * SecondsPerMinute
    ELSE (SecondsPerMinute * (m - INT_MAX \div SecondsPerMinute)
            - (INT_MAX % SecondsPerMinute) - 2) - INT_MAX

\* The / of int, for a positive divisor: truncation towards zero.
IntDiv(a, b) == IF a >= 0 THEN a \div b ELSE -((-a) \div b)

set_hls_output_options(max_keep_minutes, hls_time_sec) ==
  [hls_time |-> IF hls_time_sec > 0 THEN Some(hls_time_sec) ELSE Unset,
   hls_list_size |->
     IF hls_time_sec > 0 /\ max_keep_minutes > 0
       THEN LET list_size == IntDiv(IntMul60(max_keep_minutes), hls_time_sec)
            IN Some(IF list_size < 2 THEN 2 ELSE list_size)
       ELSE Unset]

\* The defaults of main(): no --reconnect-sec, copy 0 / 0, encode 5 / 4.
DefaultArgs == [reconnect_sec |-> 0,
                copy_max_keep_minutes |-> 0, copy_hls_time_sec |-> 0,
                encode_max_keep_minutes |-> 5, encode_hls_time_sec |-> 4]
DefaultPath == <<"o">>

\* What open_copy_output and init_reencode_output give to their muxers.
ListSizes(a) ==
  [copy |-> set_hls_output_options(a.copy_max_keep_minutes,
                                   a.copy_hls_time_sec).hls_list_size,
   encode |-> set_hls_output_options(a.encode_max_keep_minutes,
                                     a.encode_hls_time_sec).hls_list_size]

Init ==
  /\ pc = "loop_top"
  /\ g_stop_requested = FALSE
  /\ live_input \in BOOLEAN
  /\ \E cfg \in -1..MaxDelay :
       /\ args = [DefaultArgs EXCEPT !.reconnect_sec = cfg]
       /\ reconnect_sec = EffectiveReconnect(live_input, cfg)
  /\ output_path = normalize_output_path(DefaultPath, {})
  /\ path_log = <<DefaultPath>>
  /\ dirs = {}
  /\ hls_list_size = ListSizes(DefaultArgs)
  /\ ret = RET_OK
  /\ exit_code = 0
  /\ state = FreshState
  /\ pkt = NoPacket
  /\ loop_ret = RET_OK
  /\ frames = 0
  /\ outcome = "none"
  /\ fault = "none"
  /\ open_attempts = 0
  /\ open_log = <<>>
  /\ slept = 0
  /\ lost = {}
  /\ stop_where = "none"
  /\ reads_after_stop = 0
  /\ opens_after_stop = 0
  /\ events = <<>>
  /\ copy_hist = NoCopyHist

\* Variable groups left unchanged.
cfgVars == <<live_input, reconnect_sec, args, output_path, dirs, hls_list_size,
             path_log>>
loopVars == <<pkt, loop_ret, frames, events, copy_hist>>
stopHist == <<stop_where, reads_after_stop>>

(***************************************************************************)
(* handle_signal: the store and nothing else.                              *)
(***************************************************************************)
InLoop == pc \in {"rl_check", "rl_read", "dist_send", "dist_recv", "dist_audio",
                  "dist_copy"}

InFlight == pc \in {"dist_send", "dist_recv", "dist_audio", "dist_copy"}

\* A handler that flips the flag instead of setting it.
handle_signal_Toggle ==
  /\ pc # "exited"
  /\ g_stop_requested' = ~g_stop_requested
  /\ stop_where' = IF g_stop_requested THEN stop_where
                   ELSE IF InFlight THEN "in_flight"
                   ELSE IF InLoop THEN "idle" ELSE "none"
  /\ UNCHANGED <<pc, cfgVars, ret, exit_code, state, loopVars, outcome, fault,
                 open_attempts, open_log, slept, lost, reads_after_stop,
                 opens_after_stop>>

handle_signal ==
  /\ pc # "exited"
  /\ g_stop_requested' = TRUE
  /\ stop_where' = IF g_stop_requested THEN stop_where
                   ELSE IF InFlight THEN "in_flight"
                   ELSE IF InLoop THEN "idle" ELSE "none"
  /\ UNCHANGED <<pc, cfgVars, ret, exit_code, state, loopVars, outcome, fault,
                 open_attempts, open_log, slept, lost, reads_after_stop,
                 opens_after_stop>>

(***************************************************************************)
(* main(): the reconnect loop up to run_loop().                            *)
(***************************************************************************)

\* Leaving the loop body (break or continue): the locals in_ctx, vdec and state
\* go out of scope; what they still hold is lost.  `extra` are handles of other
\* locals that were already dropped.  `lost` is what the iteration that just
\* ended has lost; on continue the next iteration starts with fresh locals.
EndIteration(next, code, st, extra) ==
  /\ pc' = next
  /\ exit_code' = code
  /\ state' = IF next = "exited" THEN st ELSE FreshState
  /\ lost' = HeldIn(st, pkt) \cup extra
  /\ slept' = IF next = "sleep" THEN reconnect_sec ELSE slept

\* while (true) { if (g_stop_requested.load()) { exit_code = 0; break; } ...
LoopTop ==
  /\ pc = "loop_top"
  /\ IF g_stop_requested
       THEN /\ pc' = "exited"
            /\ exit_code' = ExitOk
            /\ UNCHANGED <<state, fault, outcome, loopVars, lost>>
       ELSE /\ pc' = "open_input"
            /\ state' = FreshState
            /\ pkt' = NoPacket
            /\ loop_ret' = RET_OK
            /\ frames' = 0
            /\ events' = <<>>
            /\ fault' = "none"
            /\ outcome' = "none"
            /\ lost' = {}
            /\ UNCHANGED <<exit_code, copy_hist>>
  /\ UNCHANGED <<g_stop_requested, cfgVars, ret, open_attempts, open_log,
                 slept, stopHist, opens_after_stop>>

\* A controller that retries a failed open at once, without the sleep.
OnOpenFailure_NoSleep(rs) ==
  IF rs > 0 THEN [next |-> "loop_top", code |-> exit_code]
            ELSE [next |-> "exited", code |-> ExitInputOpen]

\* A controller that gives up on the first failed open.
OnOpenFailure_GiveUp(rs) == [next |-> "exited", code |-> ExitInputOpen]

\* What main() does when open_input() failed.
OnOpenFailure(rs) ==
  IF rs > 0 THEN [next |-> "sleep", code |-> exit_code]
            ELSE [next |-> "exited", code |-> ExitInputOpen]

\* open_input(): avformat_open_input, then avformat_find_stream_info.
\* A failure of the second returns with *in_ctx still open.
open_input(in_ctx, result) ==
  CASE result = "ok" -> [ret |-> RET_OK, in_ctx |-> Acquire(in_ctx)]
    [] result = "open_fail" -> [ret |-> AVERROR_EIO, in_ctx |-> in_ctx]
    [] result = "info_fail" -> [ret |-> AVERROR_EIO, in_ctx |-> Acquire(in_ctx)]

OpenInput ==
  /\ pc = "open_input"
  /\ open_attempts < MaxOpens
  /\ \E result \in {"ok", "open_fail", "info_fail"} :
       LET r == open_input(state.in_ctx, result)
           st == [state EXCEPT !.in_ctx = r.in_ctx]
           base == IF open_log # <<>> /\ open_log[Len(open_log)].ev = "ok"
                     THEN <<>> ELSE open_log
           d == OnOpenFailure(reconnect_sec)
       IN /\ ret' = r.ret
          /\ open_attempts' = open_attempts + 1
          /\ opens_after_stop' = opens_after_stop + (IF stop_where # "none" THEN 1 ELSE 0)
          /\ IF ~IsNegative(r.ret)
               THEN /\ pc' = "find_streams"
                    /\ state' = st
                    /\ open_log' = Append(base, [ev |-> "ok", sec |-> 0])
                    /\ UNCHANGED <<exit_code, fault, lost, slept>>
               ELSE /\ EndIteration(d.next, d.code, st, {})
                    /\ fault' = IF result = "open_fail" THEN "open_input" ELSE "stream_info"
                    /\ open_log' =
                         Append(base, [ev |-> "fail", sec |-> 0])
                         \o (IF d.next = "sleep"
                               THEN <<[ev |-> "sleep", sec |-> reconnect_sec]>> ELSE <<>>)
  /\ UNCHANGED <<g_stop_requested, cfgVars, loopVars, outcome, stopHist>>

\* std::this_thread::sleep_for(reconnect_sec); continue;
SleepDone ==
  /\ pc = "sleep"
  /\ pc' = "loop_top"
  /\ UNCHANGED <<g_stop_requested, cfgVars, ret, exit_code, state, loopVars, outcome,
                 fault, open_attempts, open_log, slept, lost, stopHist,
                 opens_after_stop>>

\* A controller that applies the reconnect policy to setup faults too.
OnSetupFault_Retry(rs, code) ==
  IF rs > 0 THEN [next |-> "sleep", code |-> exit_code]
            ELSE [next |-> "exited", code |-> code]

\* A controller that reports every setup fault as an allocation failure.
OnSetupFault_AllocCode(rs, code) == [next |-> "exited", code |-> ExitAlloc]

\* What main() does on a setup fault after the input was opened:
\* exit_code = code; break;  whatever reconnect_sec is.
OnSetupFault(rs, code) == [next |-> "exited", code |-> code]

SetupFault(name, code, st, extra) ==
  LET d == OnSetupFault(reconnect_sec, code)
  IN /\ EndIteration(d.next, d.code, st, extra)
     /\ fault' = name

\* av_find_best_stream for video and audio.
FindStreams ==
  /\ pc = "find_streams"
  /\ \E video_found \in BOOLEAN, audio_index \in {-1, 1} :
       IF ~video_found
         THEN SetupFault("no_video", ExitDiscovery,
                         [state EXCEPT !.in_ctx = FreeAndNull(@)], {})
         ELSE /\ pc' = "open_decoder"
              /\ state' = [state EXCEPT !.video_index = 0, !.audio_index = audio_index]
              /\ UNCHANGED <<exit_code, fault, lost, slept>>
  /\ UNCHANGED <<g_stop_requested, cfgVars, ret, loopVars, outcome, open_attempts,
                 open_log, stopHist, opens_after_stop>>

\* avcodec_find_decoder, avcodec_alloc_context3, parameters_to_context, avcodec_open2.
OpenDecoder ==
  /\ pc = "open_decoder"
  /\ \E result \in {"not_found", "alloc_fail", "params_fail", "open_fail", "ok"} :
       CASE result = "ok" ->
              /\ pc' = "open_outputs"
              /\ state' = [state EXCEPT !.vdec = Acquire(@)]
              /\ UNCHANGED <<exit_code, fault, lost, slept, ret>>
         [] result \in {"not_found", "alloc_fail"} ->
              /\ SetupFault(IF result = "not_found" THEN "decoder_not_found"
                                                    ELSE "decoder_alloc",
                            ExitDiscovery,
                            [state EXCEPT !.in_ctx = FreeAndNull(@)], {})
              /\ UNCHANGED ret
         [] result \in {"params_fail", "open_fail"} ->
              /\ SetupFault(IF result = "params_fail" THEN "decoder_params"
                                                      ELSE "decoder_open",
                            ExitDiscovery,
                            [state EXCEPT !.vdec = FreeAndNull(Acquire(@)),
                                          !.in_ctx = FreeAndNull(@)], {})
              /\ ret' = AVERROR_EINVAL
  /\ UNCHANGED <<g_stop_requested, cfgVars, loopVars, outcome, open_attempts,
                 open_log, stopHist, opens_after_stop>>

(***************************************************************************)
(* open_outputs(): open_copy_output, then init_reencode_output per         *)
(* rendition.  `c` is what the library does: c.kind is "ok", "copy_alloc"  *)
(* (no copy context), "copy_late" (a later step of open_copy_output fails) *)
(* or "rendition" (init_reencode_output of rendition c.i fails at c.stage).*)
(***************************************************************************)
RenditionStages == {"fmt_alloc", "encoder_find", "encoder_open", "pkt_alloc", "late"}

\* init_reencode_output: the EncodeOutput it leaves behind.
init_reencode_output(rendition, audio_index, stage) ==
  LET fmt == IF stage = "fmt_alloc" THEN NullHandle ELSE Acquire(NullHandle)
      venc == IF stage \in {"fmt_alloc", "encoder_find"}
                THEN NullHandle ELSE Acquire(NullHandle)
      enc_pkt == IF stage \in {"late", "ok"} THEN Acquire(NullHandle) ELSE NullHandle
  IN [fmt |-> fmt, venc |-> venc, sws |-> NullHandle, sws_frame |-> NullHandle,
      enc_pkt |-> enc_pkt, astream |-> (stage = "ok" /\ audio_index >= 0),
      flushed |-> FALSE,
      enc |-> IF Held(venc)
                THEN [width |-> rendition.width, height |-> rendition.height,
                      bit_rate |-> rendition.video_bitrate]
                ELSE NoEncoder]

OutputChoices ==
  {[kind |-> k, i |-> 0, stage |-> "none"] : k \in {"ok", "copy_alloc", "copy_late"}}
  \cup {[kind |-> "rendition", i |-> i, stage |-> g] : i \in RIdx, g \in RenditionStages}

\* Result: ret, the state, and the handles of the local `out` that was not
\* pushed to state.outputs.
open_outputs(st, c) ==
  CASE c.kind = "copy_alloc" ->
         [ret |-> AVERROR_UNKNOWN, state |-> st, dropped |-> {}]
    [] c.kind = "copy_late" ->
         [ret |-> AVERROR_EIO, state |-> [st EXCEPT !.copy_ctx = Acquire(@)],
          dropped |-> {}]
    [] c.kind = "rendition" ->
         LET out == init_reencode_output(Renditions[c.i], st.audio_index, c.stage)
             opened == [j \in 1..(c.i - 1) |->
                          init_reencode_output(Renditions[j], st.audio_index, "ok")]
             copy == close_copy_output(Acquire(st.copy_ctx))
         IN [ret |-> AVERROR_EIO,
             state |-> [st EXCEPT !.copy_ctx = [copy EXCEPT !.ptr = FALSE],
                                  !.outputs = close_reencode_outputs(opened)],
             dropped |-> {<<n, c.i>> : n \in {m \in {"fmt", "venc", "enc_pkt"} :
                                                Held(out[m])}}]
    [] c.kind = "ok" ->
         [ret |-> RET_OK,
          state |-> [st EXCEPT
                       !.copy_ctx = Acquire(@),
                       !.outputs = [j \in RIdx |->
                                      init_reencode_output(Renditions[j],
                                                           st.audio_index, "ok")],
                       !.copy_next_pts = [j \in 1..NbStreams |-> 0]],
          dropped |-> {}]

\* The fault open_outputs() failed with: the allocation of a rendition's
\* encoder packet, or any other step.
OutputFault(c) ==
  IF c.kind = "rendition" /\ c.stage = "pkt_alloc" THEN "outputs_alloc" ELSE "outputs"

OpenOutputs ==
  /\ pc = "open_outputs"
  /\ \E c \in OutputChoices :
       LET r == open_outputs(state, c)
       IN /\ ret' = r.ret
          /\ IF IsNegative(r.ret)
               THEN SetupFault(OutputFault(c), ExitOutput,
                               [r.state EXCEPT !.vdec = FreeAndNull(@),
                                               !.in_ctx = FreeAndNull(@)],
                               r.dropped)
               ELSE /\ pc' = "alloc_shared"
                    /\ state' = r.state
                    /\ UNCHANGED <<exit_code, fault, lost, slept>>
  /\ UNCHANGED <<g_stop_requested, cfgVars, loopVars, outcome, open_attempts,
                 open_log, stopHist, opens_after_stop>>

\* state.decoded = av_frame_alloc(); state.audio_pkt = av_packet_alloc();
AllocShared ==
  /\ pc = "alloc_shared"
  /\ \E result \in {"decoded_fail", "audio_pkt_fail", "ok"} :
       LET closed == [state EXCEPT !.copy_ctx = close_copy_output(@),
                                   !.outputs = close_reencode_outputs(@),
                                   !.vdec = FreeAndNull(@),
                                   !.in_ctx = FreeAndNull(@)]
       IN CASE result = "ok" ->
                 /\ pc' = "run_loop"
                 /\ state' = [state EXCEPT !.decoded = Acquire(@),
                                           !.audio_pkt = Acquire(@)]
                 /\ UNCHANGED <<exit_code, fault, lost, slept>>
            [] result = "decoded_fail" ->
                 SetupFault("alloc_decoded", ExitAlloc, closed, {})
            [] result = "audio_pkt_fail" ->
                 SetupFault("alloc_audio_pkt", ExitAlloc,
                            [closed EXCEPT !.decoded = FreeAndNull(Acquire(@))], {})
  /\ UNCHANGED <<g_stop_requested, cfgVars, ret, loopVars, outcome, open_attempts,
                 open_log, stopHist, opens_after_stop>>

(***************************************************************************)
(* normalize_copy_timestamps(): repair of a packet's pts/dts against the   *)
(* cursor copy_next_pts[stream_index] (sequence position stream_index+1).  *)
(***************************************************************************)
\* A repair that fills and orders pts/dts but never clamps dts to the cursor.
normalize_copy_timestamps_NoClamp(copy_next_pts, p) ==
  IF p.stream_index < 0 \/ p.stream_index >= Len(copy_next_pts)
    THEN [pkt |-> p, copy_next_pts |-> copy_next_pts]
    ELSE
      LET cur == copy_next_pts[p.stream_index + 1]
          pts1 == IF p.pts = AV_NOPTS_VALUE /\ p.dts = AV_NOPTS_VALUE THEN cur
                  ELSE IF p.pts = AV_NOPTS_VALUE THEN p.dts
                  ELSE p.pts
          dts1 == IF p.pts = AV_NOPTS_VALUE /\ p.dts = AV_NOPTS_VALUE THEN cur
                  ELSE IF p.pts = AV_NOPTS_VALUE THEN p.dts
                  ELSE IF p.dts = AV_NOPTS_VALUE THEN p.pts
                  ELSE p.dts
          pts2 == IF pts1 < dts1 THEN dts1 ELSE pts1
          inc == IF p.duration > 0 THEN p.duration ELSE 1
      IN [pkt |-> [p EXCEPT !.pts = pts2, !.dts = dts1],
          copy_next_pts |-> [copy_next_pts EXCEPT ![p.stream_index + 1] = dts1 + inc]]

\* A repair that advances the cursor by the raw duration, even 0 or negative.
normalize_copy_timestamps_RawDuration(copy_next_pts, p) ==
  IF p.stream_index < 0 \/ p.stream_index >= Len(copy_next_pts)
    THEN [pkt |-> p, copy_next_pts |-> copy_next_pts]
    ELSE
      LET cur == copy_next_pts[p.stream_index + 1]
          pts1 == IF p.pts = AV_NOPTS_VALUE /\ p.dts = AV_NOPTS_VALUE THEN cur
                  ELSE IF p.pts = AV_NOPTS_VALUE THEN p.dts
                  ELSE p.pts
          dts1 == IF p.pts = AV_NOPTS_VALUE /\ p.dts = AV_NOPTS_VALUE THEN cur
                  ELSE IF p.pts = AV_NOPTS_VALUE THEN p.dts
                  ELSE IF p.dts = AV_NOPTS_VALUE THEN p.pts
                  ELSE p.dts
          dts2 == IF dts1 < cur THEN cur ELSE dts1
          pts2 == IF pts1 < dts2 THEN dts2 ELSE pts1
      IN [pkt |-> [p EXCEPT !.pts = pts2, !.dts = dts2],
          copy_next_pts |-> [copy_next_pts EXCEPT ![p.stream_index + 1] =
                                                    dts2 + p.duration]]

\* A repair that advances the cursor from the dts before the floor.
normalize_copy_timestamps_CursorFromInput(copy_next_pts, p) ==
  IF p.stream_index < 0 \/ p.stream_index >= Len(copy_next_pts)
    THEN [pkt |-> p, copy_next_pts |-> copy_next_pts]
    ELSE
      LET cur == copy_next_pts[p.stream_index + 1]
          pts1 == IF p.pts = AV_NOPTS_VALUE /\ p.dts = AV_NOPTS_VALUE THEN cur
                  ELSE IF p.pts = AV_NOPTS_VALUE THEN p.dts
                  ELSE p.pts
          dts1 == IF p.pts = AV_NOPTS_VALUE /\ p.dts = AV_NOPTS_VALUE THEN cur
                  ELSE IF p.pts = AV_NOPTS_VALUE THEN p.dts
                  ELSE IF p.dts = AV_NOPTS_VALUE THEN p.pts
                  ELSE p.dts
          dts2 == IF dts1 < cur THEN cur ELSE dts1
          pts2 == IF pts1 < dts2 THEN dts2 ELSE pts1
          inc == IF p.duration > 0 THEN p.duration ELSE 1
      IN [pkt |-> [p EXCEPT !.pts = pts2, !.dts = dts2],
          copy_next_pts |-> [copy_next_pts EXCEPT ![p.stream_index + 1] = dts1 + inc]]

\* A repair that fills a missing dts from the cursor instead of the pts.
normalize_copy_timestamps_DtsFromCursor(copy_next_pts, p) ==
  IF p.stream_index < 0 \/ p.stream_index >= Len(copy_next_pts)
    THEN [pkt |-> p, copy_next_pts |-> copy_next_pts]
    ELSE
      LET cur == copy_next_pts[p.stream_index + 1]
          pts1 == IF p.pts = AV_NOPTS_VALUE /\ p.dts = AV_NOPTS_VALUE THEN cur
                  ELSE IF p.pts = AV_NOPTS_VALUE THEN p.dts
                  ELSE p.pts
          dts1 == IF p.dts = AV_NOPTS_VALUE THEN cur ELSE p.dts
          dts2 == IF dts1 < cur THEN cur ELSE dts1
          pts2 == IF pts1 < dts2 THEN dts2 ELSE pts1
          inc == IF p.duration > 0 THEN p.duration ELSE 1
      IN [pkt |-> [p EXCEPT !.pts = pts2, !.dts = dts2],
          copy_next_pts |-> [copy_next_pts EXCEPT ![p.stream_index + 1] = dts2 + inc]]

normalize_copy_timestamps(copy_next_pts, p) ==
  IF p.stream_index < 0 \/ p.stream_index >= Len(copy_next_pts)
    THEN [pkt |-> p, copy_next_pts |-> copy_next_pts]
    ELSE
      LET cur == copy_next_pts[p.stream_index + 1]
          \* fill missing timestamps
          pts1 == IF p.pts = AV_NOPTS_VALUE /\ p.dts = AV_NOPTS_VALUE THEN cur
                  ELSE IF p.pts = AV_NOPTS_VALUE THEN p.dts
                  ELSE p.pts
          dts1 == IF p.pts = AV_NOPTS_VALUE /\ p.dts = AV_NOPTS_VALUE THEN cur
                  ELSE IF p.pts = AV_NOPTS_VALUE THEN p.dts
                  ELSE IF p.dts = AV_NOPTS_VALUE THEN p.pts
                  ELSE p.dts
          \* enforce monotonic DTS
          dts2 == IF dts1 < cur THEN cur ELSE dts1
          pts2 == IF pts1 < dts2 THEN dts2 ELSE pts1
          \* advance next PTS
          inc == IF p.duration > 0 THEN p.duration ELSE 1
      IN [pkt |-> [p EXCEPT !.pts = pts2, !.dts = dts2],
          copy_next_pts |-> [copy_next_pts EXCEPT ![p.stream_index + 1] = dts2 + inc]]

TsValues == {AV_NOPTS_VALUE} \cup (-MaxTs..MaxTs)
Durations == -1..MaxDur
\* The packets the controller model reads: without timestamps and duration, or
\* with pts = dts = MaxTs and duration MaxDur.  The whole range is explored by
\* SpecCopy.
ReadPackets == {[pts |-> AV_NOPTS_VALUE, dts |-> AV_NOPTS_VALUE, duration |-> 0],
                [pts |-> MaxTs, dts |-> MaxTs, duration |-> MaxDur]}

\* History of the copy path: the repair just made and, per stream, the last
\* repaired dts.
NoSeen == [seen |-> FALSE, dts |-> 0]
RecordCopy(h, p, r, before) ==
  IF p.stream_index < 0 \/ p.stream_index >= Len(before)
    THEN [h EXCEPT !.n = @ + 1, !.in = p, !.out = r.pkt, !.before = before,
                   !.after = r.copy_next_pts, !.prev = NoSeen]
    ELSE [n |-> h.n + 1, in |-> p, out |-> r.pkt, before |-> before,
          after |-> r.copy_next_pts,
          prev |-> h.last[p.stream_index + 1],
          last |-> [h.last EXCEPT ![p.stream_index + 1] =
                                     [seen |-> TRUE, dts |-> r.pkt.dts]]]

(***************************************************************************)
(* run_loop()                                                              *)
(***************************************************************************)
mainVars == <<exit_code, open_attempts, open_log, slept, lost, opens_after_stop>>

\* AVPacket *pkt = av_packet_alloc();
RunLoopEnter ==
  /\ pc = "run_loop"
  /\ \E ok \in BOOLEAN :
       IF ok
         THEN /\ pkt' = [h |-> Acquire(NullHandle), f |-> BlankFields]
              /\ loop_ret' = RET_OK
              /\ pc' = "rl_check"
              /\ UNCHANGED <<ret, outcome, fault>>
         ELSE /\ ret' = AVERROR_ENOMEM
              /\ outcome' = AVERROR_ENOMEM
              /\ fault' = "pkt_alloc"
              /\ pc' = "teardown"
              /\ UNCHANGED <<pkt, loop_ret>>
  /\ UNCHANGED <<g_stop_requested, cfgVars, state, frames, events, copy_hist, mainVars,
                 stopHist>>

\* if (g_stop_requested.load()) { ret = AVERROR_EXIT; break; }
RlCheck ==
  /\ pc = "rl_check"
  /\ IF g_stop_requested
       THEN /\ loop_ret' = AVERROR_EXIT
            /\ pc' = "rl_exit"
       ELSE /\ pc' = "rl_read"
            /\ UNCHANGED loop_ret
  /\ events' = <<>>
  /\ frames' = 0
  /\ UNCHANGED <<g_stop_requested, cfgVars, ret, state, pkt, copy_hist,
                 outcome, fault, mainVars, stopHist>>

ReadResults == {AVERROR_EAGAIN, AVERROR_ETIMEDOUT, AVERROR_EOF, AVERROR_EIO, RET_OK}

\* A run loop that gives the session up on a read timeout.
RlRead_TimeoutEnds ==
  /\ pc = "rl_read"
  /\ reads_after_stop' = reads_after_stop + (IF stop_where # "none" THEN 1 ELSE 0)
  /\ \E r \in ReadResults :
       /\ loop_ret' = r
       /\ CASE r \in {AVERROR_EAGAIN, AVERROR_ETIMEDOUT} ->
                 /\ pc' = "rl_exit"
                 /\ UNCHANGED <<pkt, fault, frames, events>>
            [] r = AVERROR_EOF ->
                 /\ pc' = "rl_exit"
                 /\ UNCHANGED <<pkt, fault, frames, events>>
            [] r = AVERROR_EIO ->
                 /\ pc' = "rl_exit"
                 /\ fault' = "read"
                 /\ UNCHANGED <<pkt, frames, events>>
            [] r = RET_OK ->
                 /\ state.packet_count < MaxPackets
                 /\ \E si \in 0..(NbStreams - 1), t \in ReadPackets :
                      /\ pkt' = [pkt EXCEPT !.f = [valid |-> TRUE, stream_index |-> si,
                                                 pts |-> t.pts, dts |-> t.dts,
                                                 duration |-> t.duration]]
                      /\ events' = <<[ev |-> "read", i |-> si, frame |-> 0]>>
                 /\ pc' = "dist_send"
                 /\ frames' = 0
                 /\ UNCHANGED fault
  /\ UNCHANGED <<g_stop_requested, cfgVars, ret, state, copy_hist, outcome, mainVars,
                 stop_where>>

\* ret = av_read_frame(state.in_ctx, pkt); and the tests of ret that follow.
RlRead ==
  /\ pc = "rl_read"
  /\ reads_after_stop' = reads_after_stop + (IF stop_where # "none" THEN 1 ELSE 0)
  /\ \E r \in ReadResults :
       /\ loop_ret' = r
       /\ CASE r \in {AVERROR_EAGAIN, AVERROR_ETIMEDOUT} ->
                 /\ pc' = "rl_check"
                 /\ UNCHANGED <<pkt, fault, frames, events>>
            [] r = AVERROR_EOF ->
                 /\ pc' = "rl_exit"
                 /\ UNCHANGED <<pkt, fault, frames, events>>
            [] r = AVERROR_EIO ->
                 /\ pc' = "rl_exit"
                 /\ fault' = "read"
                 /\ UNCHANGED <<pkt, frames, events>>
            [] r = RET_OK ->
                 /\ state.packet_count < MaxPackets
                 /\ \E si \in 0..(NbStreams - 1), t \in ReadPackets :
                      /\ pkt' = [pkt EXCEPT !.f = [valid |-> TRUE, stream_index |-> si,
                                                 pts |-> t.pts, dts |-> t.dts,
                                                 duration |-> t.duration]]
                      /\ events' = <<[ev |-> "read", i |-> si, frame |-> 0]>>
                 /\ pc' = "dist_send"
                 /\ frames' = 0
                 /\ UNCHANGED fault
  /\ UNCHANGED <<g_stop_requested, cfgVars, ret, state, copy_hist, outcome, mainVars,
                 stop_where>>

\* A run loop that drops the packet on a failure and reads on.
AfterDistribute_SkipFailure(r, cause, st) ==
  /\ loop_ret' = r
  /\ pkt' = [pkt EXCEPT !.f = BlankFields]
  /\ pc' = "rl_check"
  /\ IF IsNegative(r)
       THEN /\ fault' = cause
            /\ state' = st
       ELSE /\ state' = [st EXCEPT !.packet_count = @ + 1]
            /\ UNCHANGED fault

\* distribute_outputs() returned r; run_loop: av_packet_unref(pkt);
\* if (ret < 0) break;  state.packet_count++;
AfterDistribute(r, cause, st) ==
  /\ loop_ret' = r
  /\ pkt' = [pkt EXCEPT !.f = BlankFields]
  /\ IF IsNegative(r)
       THEN /\ pc' = "rl_exit"
            /\ fault' = cause
            /\ state' = st
       ELSE /\ pc' = "rl_check"
            /\ state' = [st EXCEPT !.packet_count = @ + 1]
            /\ UNCHANGED fault

\* av_packet_free(&pkt); return ret;   and main(): ret = run_loop(state);
RlExit ==
  /\ pc = "rl_exit"
  /\ pkt' = [pkt EXCEPT !.h = FreeAndNull(@)]
  /\ ret' = loop_ret
  /\ outcome' = loop_ret
  /\ pc' = "teardown"
  /\ events' = <<>>
  /\ frames' = 0
  /\ UNCHANGED <<g_stop_requested, cfgVars, state, loop_ret, copy_hist,
                 fault, mainVars, stopHist>>

(***************************************************************************)
(* distribute_outputs()                                                    *)
(***************************************************************************)
distUnchanged == <<g_stop_requested, cfgVars, ret, outcome, mainVars, stopHist>>

\* A distribution that submits every packet to the decoder.
DistSend_AnyStream ==
  /\ pc = "dist_send"
  /\ \E ok \in BOOLEAN :
       IF ok
         THEN /\ pc' = "dist_recv"
              /\ UNCHANGED <<state, pkt, loop_ret, fault>>
         ELSE AfterDistribute(AVERROR_EINVAL, "decode", state)
  /\ events' = Append(events, [ev |-> "send", i |-> 0, frame |-> 0])
  /\ UNCHANGED <<frames, copy_hist>>
  /\ UNCHANGED distUnchanged

\* if (pkt->stream_index == state.video_index) { avcodec_send_packet ...
DistSend ==
  /\ pc = "dist_send"
  /\ IF pkt.f.stream_index = state.video_index
       THEN /\ \E ok \in BOOLEAN :
                 IF ok
                   THEN /\ pc' = "dist_recv"
                        /\ UNCHANGED <<state, pkt, loop_ret, fault>>
                   ELSE AfterDistribute(AVERROR_EINVAL, "decode", state)
            /\ events' = Append(events, [ev |-> "send", i |-> 0, frame |-> 0])
       ELSE /\ pc' = "dist_audio"
            /\ UNCHANGED <<state, pkt, loop_ret, fault, events>>
  /\ UNCHANGED <<frames, copy_hist>>
  /\ UNCHANGED distUnchanged

\* init_sws_for_output for every output that has no scaler yet; `c` says
\* whether and where it fails: at output c.i in sws_getContext ("ctx"),
\* av_frame_alloc ("frame_alloc") or av_frame_get_buffer ("buffer").
init_sws_for_output(out, stage) ==
  CASE stage = "ctx" -> [ret |-> AVERROR_EINVAL, out |-> out]
    [] stage = "frame_alloc" ->
         [ret |-> AVERROR_ENOMEM, out |-> [out EXCEPT !.sws = Acquire(@)]]
    [] stage = "buffer" ->
         [ret |-> AVERROR_ENOMEM,
          out |-> [out EXCEPT !.sws = Acquire(@), !.sws_frame = Acquire(@)]]
    [] stage = "ok" ->
         [ret |-> RET_OK,
          out |-> [out EXCEPT !.sws = Acquire(@), !.sws_frame = Acquire(@)]]

SwsStages == {"ctx", "frame_alloc", "buffer"}

\* A scaler loop that builds a scaler for every frame.
InitScalers_EveryFrame(outputs, c) ==
  [i \in DOMAIN outputs |->
     IF c.kind = "sws" /\ i > c.i THEN outputs[i]
     ELSE init_sws_for_output(outputs[i],
                              IF c.kind = "sws" /\ i = c.i THEN c.stage ELSE "ok").out]

\* The loop `for (auto &out : state.outputs) if (!out.sws) ...` failing at c.i
\* (c.kind = "sws") or not at all.
InitScalers(outputs, c) ==
  [i \in DOMAIN outputs |->
     IF outputs[i].sws.ptr \/ (c.kind = "sws" /\ i > c.i) THEN outputs[i]
     ELSE init_sws_for_output(outputs[i],
                              IF c.kind = "sws" /\ i = c.i THEN c.stage ELSE "ok").out]

FrameChoices(outputs) ==
  {[kind |-> "ok", i |-> 0, stage |-> "none"]}
  \cup {[kind |-> "sws", i |-> i, stage |-> g] :
          i \in {j \in DOMAIN outputs : ~outputs[j].sws.ptr}, g \in SwsStages}
  \cup {[kind |-> "encode", i |-> i, stage |-> "none"] : i \in DOMAIN outputs}

\* A distribution that leaves out the last rendition of the ladder.
FrameEvents_SkipLast(outputs, c, k) ==
  LET builds == SelectSeq([i \in DOMAIN outputs |-> i],
                          LAMBDA i : ~outputs[i].sws.ptr
                                     /\ (c.kind # "sws" \/ i <= c.i))
      last == IF c.kind = "sws" THEN 0
              ELSE IF c.kind = "encode" THEN c.i ELSE Len(outputs) - 1
  IN [n \in 1..Len(builds) |-> [ev |-> "sws_init", i |-> builds[n], frame |-> k]]
     \o [n \in 1..last |-> [ev |-> "encode", i |-> n, frame |-> k]]

\* Events of one frame: the scalers built, then the encode attempts, in order.
FrameEvents(outputs, c, k) ==
  LET builds == SelectSeq([i \in DOMAIN outputs |-> i],
                          LAMBDA i : ~outputs[i].sws.ptr
                                     /\ (c.kind # "sws" \/ i <= c.i))
      last == IF c.kind = "sws" THEN 0
              ELSE IF c.kind = "encode" THEN c.i ELSE Len(outputs)
  IN [n \in 1..Len(builds) |-> [ev |-> "sws_init", i |-> builds[n], frame |-> k]]
     \o [n \in 1..last |-> [ev |-> "encode", i |-> n, frame |-> k]]

\* The values best_effort_timestamp takes on a decoded frame.
FrameTimestamps == {AV_NOPTS_VALUE, MaxTs}

\* A derivation that reads the fallback counter without advancing it.
DerivePts_NoIncrement(best_effort_timestamp, fallback_pts) ==
  [in_pts |-> IF best_effort_timestamp = AV_NOPTS_VALUE THEN fallback_pts
              ELSE best_effort_timestamp,
   fallback_pts |-> fallback_pts]

\* int64_t in_pts = state.decoded->best_effort_timestamp;
\* if (in_pts == AV_NOPTS_VALUE) in_pts = state.fallback_pts++;
DerivePts(best_effort_timestamp, fallback_pts) ==
  IF best_effort_timestamp = AV_NOPTS_VALUE
    THEN [in_pts |-> fallback_pts, fallback_pts |-> fallback_pts + 1]
    ELSE [in_pts |-> best_effort_timestamp, fallback_pts |-> fallback_pts]

\* The encode events of a frame carry the frame's best_effort_timestamp and
\* the in_pts handed to av_rescale_q for the rendition.
Stamp(evs, best_effort_timestamp, in_pts) ==
  [n \in DOMAIN evs |->
     IF evs[n].ev = "encode"
       THEN [ev |-> "encode", i |-> evs[n].i, frame |-> evs[n].frame,
             best_effort |-> best_effort_timestamp, in_pts |-> in_pts]
       ELSE evs[n]]

\* One turn of the receive loop: avcodec_receive_frame, scalers, timestamp,
\* encode_and_write_frame for every rendition.
DistRecv ==
  /\ pc = "dist_recv"
  /\ \E r \in {AVERROR_EAGAIN, AVERROR_EOF, AVERROR_EINVAL, RET_OK} :
       CASE r \in {AVERROR_EAGAIN, AVERROR_EOF} ->
              /\ pc' = "dist_audio"
              /\ UNCHANGED <<state, pkt, loop_ret, fault, frames, events>>
         [] r = AVERROR_EINVAL ->
              /\ AfterDistribute(r, "decode", state)
              /\ UNCHANGED <<frames, events>>
         [] r = RET_OK ->
              /\ frames < MaxFrames
              /\ \E best_effort_timestamp \in FrameTimestamps,
                    c \in FrameChoices(state.outputs) :
                   LET outs == InitScalers(state.outputs, c)
                       d == IF c.kind # "sws"
                              THEN DerivePts(best_effort_timestamp, state.fallback_pts)
                              ELSE [in_pts |-> 0, fallback_pts |-> state.fallback_pts]
                       st == [state EXCEPT !.outputs = outs,
                                           !.fallback_pts = d.fallback_pts]
                   IN /\ events' = events \o
                           Stamp(FrameEvents(state.outputs, c, frames + 1),
                                 best_effort_timestamp, d.in_pts)
                      /\ frames' = frames + 1
                      /\ CASE c.kind = "ok" ->
                                /\ pc' = "dist_recv"
                                /\ state' = st
                                /\ UNCHANGED <<pkt, loop_ret, fault>>
                           [] c.kind = "sws" ->
                                AfterDistribute(
                                  init_sws_for_output(state.outputs[c.i], c.stage).ret,
                                  "scaler", st)
                           [] c.kind = "encode" ->
                                AfterDistribute(AVERROR_EIO, "encode", st)
  /\ UNCHANGED copy_hist
  /\ UNCHANGED distUnchanged

\* out.astream = out.fmt->streams[out.fmt->nb_streams - 1]: the audio stream
\* follows the video stream of a rendition output.
AudioOutIndex == 1

\* av_rescale_q_rnd(t, in_tb, out_tb, AV_ROUND_NEAR_INF | AV_ROUND_PASS_MINMAX)
\* for an output time base q times finer than the input's: the unknown
\* sentinel passes through.
RescalePassMinMax(t, q) == IF t = AV_NOPTS_VALUE THEN t ELSE t * q

\* write_audio_packet_to_output: what it stores into the packet it is given.
write_audio_packet_to_output(p, out_index, q) ==
  [p EXCEPT !.pts = RescalePassMinMax(p.pts, q),
            !.dts = RescalePassMinMax(p.dts, q),
            !.duration = p.duration * q,
            !.stream_index = out_index]

\* The packet after k relays that rescale it in place.
RECURSIVE RelayedInPlace(_, _, _)
RelayedInPlace(p, k, q) ==
  IF k = 0 THEN p
  ELSE write_audio_packet_to_output(RelayedInPlace(p, k - 1, q), AudioOutIndex, q)

\* A relay that rescales the source packet itself for every rendition.
DistAudio_InPlace ==
  /\ pc = "dist_audio"
  /\ IF state.audio_index >= 0 /\ pkt.f.stream_index = state.audio_index
       THEN \E fail_at \in {0} \cup {i \in DOMAIN state.outputs :
                                       state.outputs[i].astream},
               q \in 1..MaxTimeBaseRatio :
              LET targets == SelectSeq([i \in DOMAIN state.outputs |-> i],
                                       LAMBDA i : state.outputs[i].astream
                                                  /\ (fail_at = 0 \/ i <= fail_at))
              IN /\ events' = events \o
                       [n \in 1..Len(targets) |->
                          [ev |-> "audio", i |-> targets[n], frame |-> 0,
                           src |-> RelayedInPlace(pkt.f, n - 1, q),
                           out |-> RelayedInPlace(pkt.f, n, q)]]
                 /\ IF fail_at = 0
                      THEN /\ pc' = "dist_copy"
                           /\ pkt' = [pkt EXCEPT !.f = RelayedInPlace(@, Len(targets), q)]
                           /\ UNCHANGED <<state, loop_ret, fault>>
                      ELSE AfterDistribute(AVERROR_EIO, "audio_relay", state)
       ELSE /\ pc' = "dist_copy"
            /\ UNCHANGED <<state, pkt, loop_ret, fault, events>>
  /\ UNCHANGED <<frames, copy_hist>>
  /\ UNCHANGED distUnchanged

\* The audio relay: for every output with an audio stream, av_packet_ref into
\* state.audio_pkt and write_audio_packet_to_output on that reference;
\* fail_at = 0: no failure.  An audio event carries the packet the reference
\* was taken from (src) and what the relay made of the reference (out).
DistAudio ==
  /\ pc = "dist_audio"
  /\ IF state.audio_index >= 0 /\ pkt.f.stream_index = state.audio_index
       THEN \E fail_at \in {0} \cup {i \in DOMAIN state.outputs :
                                       state.outputs[i].astream},
               q \in 1..MaxTimeBaseRatio :
              LET targets == SelectSeq([i \in DOMAIN state.outputs |-> i],
                                       LAMBDA i : state.outputs[i].astream
                                                  /\ (fail_at = 0 \/ i <= fail_at))
              IN /\ events' = events \o
                       [n \in 1..Len(targets) |->
                          [ev |-> "audio", i |-> targets[n], frame |-> 0,
                           src |-> pkt.f,
                           out |-> write_audio_packet_to_output(pkt.f, AudioOutIndex, q)]]
                 /\ IF fail_at = 0
                      THEN /\ pc' = "dist_copy"
                           /\ UNCHANGED <<state, pkt, loop_ret, fault>>
                      ELSE AfterDistribute(AVERROR_EIO, "audio_relay", state)
       ELSE /\ pc' = "dist_copy"
            /\ UNCHANGED <<state, pkt, loop_ret, fault, events>>
  /\ UNCHANGED <<frames, copy_hist>>
  /\ UNCHANGED distUnchanged

\* A distribution that writes the packet to the copy output twice.
DistCopy_Twice ==
  /\ pc = "dist_copy"
  /\ \E ok \in BOOLEAN :
       LET r == normalize_copy_timestamps(state.copy_next_pts, pkt.f)
           st == [state EXCEPT !.copy_next_pts = r.copy_next_pts]
       IN /\ events' = events \o <<[ev |-> "copy", i |-> 0, frame |-> 0],
                                   [ev |-> "copy", i |-> 0, frame |-> 0]>>
          /\ AfterDistribute(IF ok THEN RET_OK ELSE AVERROR_EIO, "copy_write", st)
  /\ UNCHANGED <<frames, copy_hist>>
  /\ UNCHANGED distUnchanged

\* normalize_copy_timestamps(state, pkt); write_copy_packet(...);
DistCopy ==
  /\ pc = "dist_copy"
  /\ \E ok \in BOOLEAN :
       LET r == normalize_copy_timestamps(state.copy_next_pts, pkt.f)
           st == [state EXCEPT !.copy_next_pts = r.copy_next_pts]
       IN /\ events' = Append(events, [ev |-> "copy", i |-> 0, frame |-> 0])
          /\ AfterDistribute(IF ok THEN RET_OK ELSE AVERROR_EIO, "copy_write", st)
  /\ UNCHANGED <<frames, copy_hist>>
  /\ UNCHANGED distUnchanged

(***************************************************************************)
(* main(): teardown of the session and the retry decision.                 *)
(***************************************************************************)

\* flush_encoders(): per output, send the end-of-stream frame and drain; the
\* first failure returns.  fail_at = 0: no failure.  `flushed` records which
\* encoders were drained to the end.
flush_encoders(outputs, fail_at) ==
  [ret |-> IF fail_at = 0 THEN RET_OK ELSE AVERROR_EIO,
   outputs |-> [i \in DOMAIN outputs |->
                  [outputs[i] EXCEPT !.flushed = (fail_at = 0 \/ i < fail_at)]]]

\* ret = run_loop(state);  ...  ret = flush_encoders(state.outputs);
\* The value main() goes on with.
RetAfterTeardown(run_ret, flush_ret) == flush_ret

Teardown ==
  /\ pc = "teardown"
  /\ \E fail_at \in {0} \cup DOMAIN state.outputs :
       LET fl == flush_encoders(state.outputs, fail_at)
       IN /\ ret' = RetAfterTeardown(ret, fl.ret)
          /\ state' = [state EXCEPT
                         !.audio_pkt = FreeAndNull(@),
                         !.decoded = FreeAndNull(@),
                         !.copy_ctx = close_copy_output(@),
                         !.outputs = close_reencode_outputs(fl.outputs),
                         !.vdec = FreeAndNull(@),
                         !.in_ctx = FreeAndNull(@)]
  /\ pc' = "decide"
  /\ UNCHANGED <<g_stop_requested, cfgVars, loopVars, outcome, fault, mainVars,
                 stopHist>>

\* A controller that gives up on a failed session although reconnect is enabled.
SessionEnd_NoRetryOnError(r, rs, stop) ==
  IF r = AVERROR_EXIT THEN [next |-> "exited", code |-> ExitOk]
  ELSE IF r = AVERROR_EOF \/ r = RET_OK THEN
    (IF rs > 0 /\ ~stop THEN [next |-> "sleep", code |-> exit_code]
     ELSE [next |-> "exited", code |-> ExitOk])
  ELSE [next |-> "exited", code |-> ExitOutput]

\* A controller that sleeps and reconnects without looking at the stop flag.
SessionEnd_IgnoreStop(r, rs, stop) ==
  IF r = AVERROR_EXIT THEN [next |-> "exited", code |-> ExitOk]
  ELSE IF r = AVERROR_EOF \/ r = RET_OK THEN
    (IF rs > 0 THEN [next |-> "sleep", code |-> exit_code]
     ELSE [next |-> "exited", code |-> ExitOk])
  ELSE
    (IF rs > 0 THEN [next |-> "sleep", code |-> exit_code]
     ELSE [next |-> "exited", code |-> ExitOutput])

\* The tests of ret after the cleanup: exit or sleep and continue.
SessionEnd(r, rs, stop) ==
  IF r = AVERROR_EXIT THEN [next |-> "exited", code |-> ExitOk]
  ELSE IF r = AVERROR_EOF \/ r = RET_OK THEN
    (IF rs > 0 /\ ~stop THEN [next |-> "sleep", code |-> exit_code]
     ELSE [next |-> "exited", code |-> ExitOk])
  ELSE
    (IF rs > 0 THEN (IF stop THEN [next |-> "exited", code |-> ExitOk]
                     ELSE [next |-> "sleep", code |-> exit_code])
     ELSE [next |-> "exited", code |-> ExitOutput])

Decide ==
  /\ pc = "decide"
  /\ LET d == SessionEnd(ret, reconnect_sec, g_stop_requested)
     IN EndIteration(d.next, d.code, state, {})
  /\ UNCHANGED <<g_stop_requested, cfgVars, ret, loopVars, outcome, fault,
                 open_attempts, open_log, stopHist, opens_after_stop>>

Next ==
  \/ handle_signal
  \/ LoopTop
  \/ OpenInput
  \/ SleepDone
  \/ FindStreams
  \/ OpenDecoder
  \/ OpenOutputs
  \/ AllocShared
  \/ RunLoopEnter
  \/ RlCheck
  \/ RlRead
  \/ DistSend
  \/ DistRecv
  \/ DistAudio
  \/ DistCopy
  \/ RlExit
  \/ Teardown
  \/ Decide

Spec == Init /\ [][Next]_vars

(***************************************************************************)
(* The copy path alone: normalize_copy_timestamps applied to any sequence  *)
(* of packets of any streams, starting from the cursors open_outputs()     *)
(* leaves (all 0).  Stream indexes -1 and NbStreams are outside the cursor *)
(* array.                                                                  *)
(***************************************************************************)
InitCopy ==
  /\ pc = "dist_copy"
  /\ g_stop_requested = FALSE
  /\ live_input = FALSE
  /\ reconnect_sec = 0
  /\ args = DefaultArgs
  /\ output_path = normalize_output_path(DefaultPath, {})
  /\ path_log = <<DefaultPath>>
  /\ dirs = {}
  /\ hls_list_size = ListSizes(DefaultArgs)
  /\ ret = RET_OK
  /\ exit_code = 0
  /\ state = open_outputs([FreshState EXCEPT !.in_ctx = Acquire(@),
                                             !.vdec = Acquire(@),
                                             !.video_index = 0, !.audio_index = 1],
                          [kind |-> "ok", i |-> 0, stage |-> "none"]).state
  /\ pkt = [h |-> Acquire(NullHandle), f |-> BlankFields]
  /\ loop_ret = RET_OK
  /\ frames = 0
  /\ outcome = "none"
  /\ fault = "none"
  /\ open_attempts = 1
  /\ open_log = <<>>
  /\ slept = 0
  /\ lost = {}
  /\ stop_where = "none"
  /\ reads_after_stop = 0
  /\ opens_after_stop = 0
  /\ events = <<>>
  /\ copy_hist = [NoCopyHist EXCEPT !.last = [j \in 1..NbStreams |-> NoSeen]]

CopyStep ==
  /\ pc = "dist_copy"
  /\ copy_hist.n < MaxCopyPackets
  /\ \E si \in -1..NbStreams, pts \in TsValues, dts \in TsValues, dur \in Durations :
       LET p == [valid |-> TRUE, stream_index |-> si, pts |-> pts, dts |-> dts,
                 duration |-> dur]
           r == normalize_copy_timestamps(state.copy_next_pts, p)
       IN /\ state' = [state EXCEPT !.copy_next_pts = r.copy_next_pts]
          /\ pkt' = [pkt EXCEPT !.f = r.pkt]
          /\ copy_hist' = RecordCopy(copy_hist, p, r, state.copy_next_pts)
  /\ UNCHANGED <<pc, g_stop_requested, cfgVars, ret, exit_code, loop_ret, frames,
                 outcome, fault, open_attempts, open_log, slept, lost, stopHist,
                 opens_after_stop, events>>

NextCopy == CopyStep

SpecCopy == InitCopy /\ [][NextCopy]_vars

(***************************************************************************)
(* main() before the reconnect loop: nothing is open, no session has run.  *)
(***************************************************************************)
BeforeLoop ==
  /\ g_stop_requested = FALSE
  /\ live_input = FALSE
  /\ reconnect_sec = 0
  /\ ret = RET_OK
  /\ exit_code = 0
  /\ state = FreshState
  /\ pkt = NoPacket
  /\ loop_ret = RET_OK
  /\ frames = 0
  /\ outcome = "none"
  /\ fault = "none"
  /\ open_attempts = 0
  /\ open_log = <<>>
  /\ slept = 0
  /\ lost = {}
  /\ stop_where = "none"
  /\ reads_after_stop = 0
  /\ opens_after_stop = 0
  /\ events = <<>>
  /\ copy_hist = NoCopyHist

beforeLoopVars == <<g_stop_requested, live_input, reconnect_sec, ret, exit_code, state,
                    pkt, loop_ret, frames, outcome, fault, open_attempts, open_log,
                    slept, lost, stop_where, reads_after_stop, opens_after_stop,
                    events, copy_hist>>

(***************************************************************************)
(* The output path alone: normalize_output_path applied repeatedly to any  *)
(* path of the command line, under any set of existing directories among   *)
(* the paths the first two applications can look at.                       *)
(***************************************************************************)
PathChars == {"/", ".", "a"}
Paths == UNION {[1..n -> PathChars] : n \in 0..MaxPathLen}

RECURSIVE SubsetsUpTo(_, _)
SubsetsUpTo(S, n) ==
  IF n = 0 THEN {{}}
  ELSE LET smaller == SubsetsUpTo(S, n - 1)
       IN smaller \cup {T \cup {x} : T \in smaller, x \in S}

DirCandidates(path) ==
  {path, path \o PlaylistExt, path \o IndexName, path \o <<"/">> \o IndexName}

InitPath ==
  /\ pc = "normalize_path"
  /\ BeforeLoop
  /\ args = DefaultArgs
  /\ hls_list_size = ListSizes(DefaultArgs)
  /\ output_path \in Paths
  /\ dirs \in SubsetsUpTo(DirCandidates(output_path), MaxDirs)
  /\ path_log = <<>>

\* output_path = utils::normalize_output_path(output_path);
NormalizePath ==
  /\ pc = "normalize_path"
  /\ Len(path_log) < MaxNormalize
  /\ path_log' = Append(path_log, output_path)
  /\ output_path' = normalize_output_path(output_path, dirs)
  /\ UNCHANGED <<pc, beforeLoopVars, args, dirs, hls_list_size>>

NextPath == NormalizePath

SpecPath == InitPath /\ [][NextPath]_vars

(***************************************************************************)
(* The muxer options alone: set_hls_output_options as open_copy_output and *)
(* init_reencode_output call it, for any retention window and segment      *)
(* duration of the command line.  HugeMinutes is the first window whose     *)
(* seconds do not fit an int; it is paired with a segment of 60 s.          *)
(***************************************************************************)
HugeMinutes == INT_MAX \div SecondsPerMinute + 1
HlsPairs ==
  [m : -1..MaxMinutes, s : -1..MaxSegSec]
    \cup {[m |-> HugeMinutes, s |-> SecondsPerMinute]}
Pending == [set |-> FALSE, value |-> -1]

InitHls ==
  /\ pc = "hls_copy"
  /\ BeforeLoop
  /\ output_path = normalize_output_path(DefaultPath, {})
  /\ path_log = <<DefaultPath>>
  /\ dirs = {}
  /\ \E c \in HlsPairs, e \in HlsPairs :
       args = [DefaultArgs EXCEPT !.copy_max_keep_minutes = c.m,
                                  !.copy_hls_time_sec = c.s,
                                  !.encode_max_keep_minutes = e.m,
                                  !.encode_hls_time_sec = e.s]
  /\ hls_list_size = [copy |-> Pending, encode |-> Pending]

\* The signed overflow of max_keep_minutes * 60 is undefined: the build either
\* wraps or traps, and then the process is gone.
HlsOutcome(max_keep_minutes, hls_time_sec, next) ==
  {[pc |-> next,
    size |-> set_hls_output_options(max_keep_minutes, hls_time_sec).hls_list_size]}
  \cup IF hls_time_sec > 0 /\ max_keep_minutes > 0 /\ Overflows(max_keep_minutes)
         THEN {[pc |-> "trapped", size |-> Pending]}
         ELSE {}

\* open_copy_output: utils::set_hls_output_options(&hls_opts,
\*   max_keep_minutes, hls_time_sec, ...) with the copy pair
HlsCopy ==
  /\ pc = "hls_copy"
  /\ \E o \in HlsOutcome(args.copy_max_keep_minutes, args.copy_hls_time_sec,
                         "hls_encode") :
       /\ pc' = o.pc
       /\ hls_list_size' = [hls_list_size EXCEPT !.copy = o.size]
  /\ UNCHANGED <<beforeLoopVars, args, output_path, dirs, path_log>>

\* init_reencode_output: the same call with the encode pair
HlsEncode ==
  /\ pc = "hls_encode"
  /\ \E o \in HlsOutcome(args.encode_max_keep_minutes, args.encode_hls_time_sec,
                         "hls_done") :
       /\ pc' = o.pc
       /\ hls_list_size' = [hls_list_size EXCEPT !.encode = o.size]
  /\ UNCHANGED <<beforeLoopVars, args, output_path, dirs, path_log>>

NextHls ==
  \/ HlsCopy
  \/ HlsEncode

SpecHls == InitHls /\ [][NextHls]_vars

(***************************************************************************)
(* Properties of the session controller.                                   *)
(***************************************************************************)
\* Faults of the run loop: read error, decode, scaler, encode, relay or copy write.
MidStreamFaults == {"read", "decode", "scaler", "encode", "audio_relay", "copy_write"}
\* Faults between a successful open_input and run_loop.
SetupFaults == {"no_video", "decoder_not_found", "decoder_alloc", "decoder_params",
                "decoder_open", "outputs", "outputs_alloc", "alloc_decoded",
                "alloc_audio_pkt"}
AfterLoop == {"teardown", "decide", "exited"}

\* C1: when run_loop ended because the stop flag was observed (AVERROR_EXIT),
\* the process exits with code 0 whatever the reconnect delay and whatever the
\* encoder flush of the teardown returned, and no new session is started.
C1_StopExitsZero ==
  outcome = AVERROR_EXIT =>
    /\ pc \in AfterLoop
    /\ pc = "exited" => exit_code = ExitOk

\* C2: a session that ended with a mid-stream error, with reconnect_sec > 0 and
\* the stop flag not set, is torn down (nothing is still held), the controller
\* sleeps reconnect_sec once instead of exiting, and from the sleep it goes to the
\* loop top and, the flag still clear, to a new open_input call.
C2_ErrorReconnects ==
  [][/\ (pc = "decide" /\ pc' # "decide" /\ fault \in MidStreamFaults
           /\ reconnect_sec > 0 /\ ~g_stop_requested)
        => (pc' = "sleep" /\ slept' = reconnect_sec /\ lost' = {}
              /\ exit_code' = exit_code)
     /\ (pc = "sleep" /\ pc' # "sleep") => pc' = "loop_top"
     /\ (pc = "loop_top" /\ pc' # "loop_top" /\ ~g_stop_requested)
        => (pc' = "open_input" /\ state' = FreshState)
     /\ (pc = "open_input" /\ pc' # "open_input")
        => open_attempts' = open_attempts + 1]_vars

C2_Witness ==
  /\ pc = "sleep"
  /\ fault \in MidStreamFaults
  /\ ~g_stop_requested
  /\ slept = reconnect_sec
  /\ open_attempts < MaxOpens

\* C3: a session that ended at end-of-stream with no stop requested: with
\* reconnect_sec > 0 the controller sleeps the delay (and restarts), with
\* reconnect_sec = 0 the process exits with code 0.
C3_EofPolicy ==
  (outcome = AVERROR_EOF /\ ~g_stop_requested /\ pc \in {"sleep", "exited"}) =>
    IF reconnect_sec > 0 THEN pc = "sleep" /\ slept = reconnect_sec
    ELSE exit_code = ExitOk

\* C4: a session that ended with a mid-stream error, with reconnect disabled
\* (delay 0) and no stop requested, makes the process exit with code 4.
C4_ErrorExitCode ==
  (pc = "exited" /\ fault \in MidStreamFaults /\ reconnect_sec = 0
     /\ ~g_stop_requested)
  => exit_code = ExitOutput

SetupExitCode(f) ==
  IF f \in {"outputs", "outputs_alloc"} THEN ExitOutput
  ELSE IF f \in {"alloc_decoded", "alloc_audio_pkt"} THEN ExitAlloc
  ELSE ExitDiscovery

OpenLogCount(ev) == Len(SelectSeq(open_log, LAMBDA e : e.ev = ev))

C6_OpenRetries ==
  (reconnect_sec > 0 /\ open_log # <<>>) =>
    LET last == open_log[Len(open_log)] IN
    /\ \A k \in 1..Len(open_log) :
         IF k % 2 = 1
           THEN /\ open_log[k].ev \in {"fail", "ok"}
                /\ open_log[k].ev = "ok" => k = Len(open_log)
           ELSE open_log[k] = [ev |-> "sleep", sec |-> reconnect_sec]
    /\ last.ev # "fail"
    /\ last.ev = "ok" =>
         /\ Len(open_log) - OpenLogCount("sleep") = OpenLogCount("fail") + 1
         /\ OpenLogCount("sleep") = OpenLogCount("fail")
    /\ last.ev = "sleep" =>
         /\ pc \in {"sleep", "loop_top", "open_input", "exited"}
         /\ slept = reconnect_sec
         /\ (pc = "exited" => g_stop_requested)

C6_Witness ==
  /\ reconnect_sec > 0
  /\ ~g_stop_requested
  /\ Len(open_log) = 2 * (MaxOpens - 1) + 1
  /\ open_log[Len(open_log)].ev = "ok"
  /\ open_attempts = MaxOpens

\* C7 as claimed: once the stop flag was set while the run loop was running,
\* the loop ends with AVERROR_EXIT.
C7_StopEndsWithExit ==
  (stop_where # "none" /\ pc \in AfterLoop) => outcome = AVERROR_EXIT

\* The packet whose events are recorded went through all of distribute_outputs:
\* for a video packet every decoded frame was encoded for every rendition in
\* order, and the copy write came last.
FullyProcessed ==
  LET enc == SelectSeq(events, LAMBDA e : e.ev = "encode")
      n == Len(state.outputs)
  IN /\ events[1].ev = "read"
     /\ events[Len(events)].ev = "copy"
     /\ IF events[1].i = state.video_index
          THEN /\ Len(enc) = frames * n
               /\ \A k \in 1..Len(enc) :
                    /\ enc[k].i = ((k - 1) % n) + 1
                    /\ enc[k].frame = ((k - 1) \div n) + 1
          ELSE enc = <<>>
     /\ (events[1].i = state.audio_index) =>
          \A i \in DOMAIN state.outputs :
            state.outputs[i].astream =>
              \E k \in 1..Len(events) : events[k].ev = "audio" /\ events[k].i = i

\* C7, amended: once the stop flag was set while the run loop was running, no
\* step in flight is interrupted: a packet that distribute_outputs accepted was
\* processed to the end (all rendition encodes and the copy write), at most one
\* more av_read_frame call is made, and the loop ends with AVERROR_EXIT unless
\* the read or the processing in flight ended it first with end-of-stream or an
\* error; afterwards there is no sleep, no return to the loop top and no
\* open_input call.
C7_StopInLoop ==
  /\ (pc = "rl_check" /\ events # <<>>) => FullyProcessed
  /\ stop_where # "none" =>
       /\ g_stop_requested
       /\ reads_after_stop <= 1
       /\ opens_after_stop = 0
       /\ pc \in {"rl_check", "rl_read", "dist_send", "dist_recv", "dist_audio",
                  "dist_copy", "rl_exit", "teardown", "decide", "exited"}
       /\ pc \in AfterLoop =>
            \/ outcome = AVERROR_EXIT
            \/ (outcome = AVERROR_EOF /\ reads_after_stop = 1)
            \/ (fault = "read" /\ reads_after_stop = 1)
            \/ fault \in MidStreamFaults \ {"read"}

C7_Witness ==
  /\ stop_where = "in_flight"
  /\ pc = "exited"
  /\ outcome = AVERROR_EXIT
  /\ state.packet_count = 1
  /\ reads_after_stop = 0
  /\ reconnect_sec > 0

(***************************************************************************)
(* Properties of the copy-path timestamp repair (checked under SpecCopy).  *)
(***************************************************************************)
CopyInRange ==
  /\ copy_hist.n > 0
  /\ copy_hist.in.stream_index >= 0
  /\ copy_hist.in.stream_index < Len(copy_hist.before)
CopyStream == copy_hist.in.stream_index + 1
CopyInc == IF copy_hist.in.duration > 0 THEN copy_hist.in.duration ELSE 1

\* C8: for every packet of a stream that has a cursor, the repaired pts is >=
\* the repaired dts, and the repaired dts is >= the repaired dts of the previous
\* packet of the same stream, whatever the incoming pts, dts and duration.
C8_MonotonicDts ==
  CopyInRange =>
    /\ copy_hist.out.pts >= copy_hist.out.dts
    /\ copy_hist.out.pts # AV_NOPTS_VALUE
    /\ copy_hist.prev.seen => copy_hist.out.dts >= copy_hist.prev.dts

C8_Witness ==
  /\ CopyInRange
  /\ copy_hist.prev.seen
  /\ copy_hist.in.dts # AV_NOPTS_VALUE
  /\ copy_hist.in.dts < copy_hist.prev.dts
  /\ copy_hist.in.pts # AV_NOPTS_VALUE
  /\ copy_hist.in.pts < copy_hist.in.dts

\* C9 as claimed: the cursor of the packet's stream grows by exactly
\* max(duration, 1).
C9_CursorStepExact ==
  CopyInRange =>
    copy_hist.after[CopyStream] = copy_hist.before[CopyStream] + CopyInc

\* C9, amended: the cursor of the packet's stream becomes the repaired dts plus
\* max(duration, 1); the repaired dts is never below the old cursor, so the
\* cursor grows by at least max(duration, 1), and by exactly that when the
\* packet's dts was not ahead of the cursor.  The cursors of the other streams
\* do not change, and a packet of a stream without cursor changes none.
C9_CursorStep ==
  /\ CopyInRange =>
       /\ copy_hist.after[CopyStream] = copy_hist.out.dts + CopyInc
       /\ copy_hist.out.dts >= copy_hist.before[CopyStream]
       /\ copy_hist.after[CopyStream] >= copy_hist.before[CopyStream] + CopyInc
       /\ (copy_hist.in.dts <= copy_hist.before[CopyStream]
             /\ (copy_hist.in.dts = AV_NOPTS_VALUE =>
                   copy_hist.in.pts <= copy_hist.before[CopyStream]))
          => copy_hist.after[CopyStream] = copy_hist.before[CopyStream] + CopyInc
       /\ \A j \in DOMAIN copy_hist.before :
            j # CopyStream => copy_hist.after[j] = copy_hist.before[j]
  /\ (copy_hist.n > 0 /\ ~CopyInRange) => copy_hist.after = copy_hist.before
  /\ copy_hist.n > 0 => state.copy_next_pts = copy_hist.after

C9_Witness ==
  /\ CopyInRange
  /\ copy_hist.in.duration <= 0
  /\ copy_hist.in.dts > copy_hist.before[CopyStream]
  /\ copy_hist.after[CopyStream] > copy_hist.before[CopyStream] + CopyInc

(***************************************************************************)
(* Resources of a session.                                                 *)
(***************************************************************************)
SessionHandles ==
  {state[m] : m \in {"in_ctx", "copy_ctx", "vdec", "decoded", "audio_pkt"}}
  \cup {pkt.h}
  \cup {state.outputs[x[2]][x[1]] :
          x \in {"fmt", "venc", "sws", "sws_frame", "enc_pkt"} \X DOMAIN state.outputs}

\* C10: a session that reached run_loop (outcome is set) has, after the cleanup
\* in main(), released every handle it acquired exactly once: nothing is
\* released more often than acquired at any time, after the cleanup every
\* handle's releases equal its acquisitions, and nothing is still held when
\* the controller sleeps, restarts or exits.
C10_ReleasedOnce ==
  outcome # "none" =>
    /\ \A h \in SessionHandles : h.rel <= h.acq /\ h.acq <= 1
    /\ pc = "decide" => \A h \in SessionHandles : h.rel = h.acq
    /\ pc \in {"sleep", "loop_top", "exited"} => lost = {}

C10_Witness ==
  /\ pc = "decide"
  /\ fault = "encode"
  /\ Len(state.outputs) = Len(Renditions)
  /\ \A i \in DOMAIN state.outputs :
       /\ state.outputs[i].sws.acq = 1 /\ state.outputs[i].sws.rel = 1
       /\ state.outputs[i].sws_frame.rel = 1
       /\ state.outputs[i].fmt.rel = 1
  /\ state.copy_ctx.rel = 1
  /\ state.in_ctx.rel = 1
  /\ pkt.h.rel = 1

(***************************************************************************)
(* Properties of the rendition pipeline.                                   *)
(***************************************************************************)
\* C11: after the cleanup of a session that entered run_loop, every rendition's
\* encoder was sent the end-of-stream frame and drained to the end before the
\* trailer of its muxer was written.
C11_AllEncodersDrained ==
  (pc = "decide" /\ outcome # "none") =>
    \A i \in DOMAIN state.outputs :
      state.outputs[i].fmt.rel = 1 => state.outputs[i].flushed

\* The encode attempts recorded for decoded frame k, as rendition indexes.
EncodesOf(k) ==
  LET enc == SelectSeq(events, LAMBDA e : e.ev = "encode" /\ e.frame = k)
  IN [n \in 1..Len(enc) |-> enc[n].i]
LadderOrder == [i \in RIdx |-> i]
\* The frame being distributed when distribute_outputs failed in a rendition.
FrameFailed(k) ==
  pc = "rl_exit" /\ fault \in {"scaler", "encode"} /\ k = frames
EncoderOfRendition(i) ==
  state.outputs[i].enc = [width |-> Renditions[i].width,
                          height |-> Renditions[i].height,
                          bit_rate |-> Renditions[i].video_bitrate]

\* C12 as claimed: every decoded frame has exactly one encode attempt per
\* rendition, in ladder order.
C12_OneEncodePerRendition ==
  \A k \in 1..frames : EncodesOf(k) = LadderOrder

\* C12, amended: every decoded frame has at most one encode attempt per
\* rendition, made in ladder order (low, mid, high) from the first rendition on,
\* each on the encoder opened with that rendition's width, height and bit rate;
\* the attempts of a frame stop at the first rendition whose scaler set-up or
\* encode fails, and a frame without such a failure has exactly one attempt for
\* every rendition.
C12_EncodeAttempts ==
  \A k \in 1..frames :
    LET enc == EncodesOf(k)
    IN /\ \E m \in 0..Len(Renditions) : enc = SubSeq(LadderOrder, 1, m)
       /\ ~FrameFailed(k) => enc = LadderOrder
       /\ (FrameFailed(k) /\ fault = "scaler") => enc = <<>>
       /\ (FrameFailed(k) /\ fault = "encode") => enc # <<>>
       /\ \A n \in 1..Len(enc) : EncoderOfRendition(enc[n])

C12_Witness ==
  /\ frames = 2
  /\ pc = "rl_exit"
  /\ fault = "encode"
  /\ EncodesOf(1) = LadderOrder
  /\ EncodesOf(2) = <<1, 2>>

\* Number of events of kind ev recorded for the packet in flight.
EventCount(ev) == Len(SelectSeq(events, LAMBDA e : e.ev = ev))
\* Renditions that were handed the frame and wrote it before rendition
\* Len(EncodesOf(k)) failed.
WrittenBeforeFailure(k) == SubSeq(EncodesOf(k), 1, Len(EncodesOf(k)) - 1)

OpenFaults == {"open_input", "stream_info"}

\* The exit code the claim gives to a fault: 2 input open, 3 stream discovery
\* and decoder open, 4 output open, 5 every allocation failure.
ClaimedExitCode(f) ==
  CASE f = "open_input" -> ExitInputOpen
    [] f \in {"stream_info", "no_video", "decoder_not_found", "decoder_params",
              "decoder_open"} -> ExitDiscovery
    [] f = "outputs" -> ExitOutput
    [] f \in {"decoder_alloc", "outputs_alloc", "alloc_decoded", "alloc_audio_pkt"}
         -> ExitAlloc

\* C14 as claimed: with reconnect disabled a fatal setup failure exits with the
\* code of its category, 5 for every allocation failure and 3 for a failed
\* stream probing.
C14_ExitCodeByCategory ==
  (pc = "exited" /\ reconnect_sec <= 0 /\ fault \in OpenFaults \cup SetupFaults)
    => exit_code = ClaimedExitCode(fault)

\* C14, amended: with reconnect disabled a fatal setup failure exits with the
\* code of the stage that failed: 2 for any failure of open_input (opening the
\* input or probing its streams), 3 when no video stream is found or the
\* decoder is not found, not allocated, not configured or not opened, 4 for any
\* failure of open_outputs (allocations included), 5 when the decoded frame or
\* the audio packet cannot be allocated.
C14_ExitCodeByStage ==
  (pc = "exited" /\ reconnect_sec <= 0) =>
    /\ fault \in OpenFaults => exit_code = ExitInputOpen
    /\ fault \in SetupFaults => exit_code = SetupExitCode(fault)
    /\ fault \in {"no_video", "decoder_not_found", "decoder_alloc", "decoder_params",
                  "decoder_open"} => exit_code = ExitDiscovery
    /\ fault \in {"outputs", "outputs_alloc"} => exit_code = ExitOutput
    /\ fault \in {"alloc_decoded", "alloc_audio_pkt"} => exit_code = ExitAlloc

C14_Witness ==
  /\ pc = "exited"
  /\ reconnect_sec <= 0
  /\ ~g_stop_requested
  /\ fault = "decoder_alloc"
  /\ exit_code = ExitDiscovery

(***************************************************************************)
(* C15.  When the reconnect delay given on the command line is 0 no input  *)
(* is retried: at most one open attempt is made and the controller never   *)
(* sleeps to reconnect.  main() replaces a delay <= 0 by LiveReconnectSec  *)
(* for rtsp/rtmp inputs, so the statement fails for them.                  *)
(***************************************************************************)
C15_ZeroDisablesRetry ==
  args.reconnect_sec = 0 =>
    /\ open_attempts <= 1
    /\ pc # "sleep"
    /\ slept = 0

(***************************************************************************)
(* Properties of utils::normalize_output_path (SpecPath).  path_log[1] is  *)
(* the path of the command line and path_log[i + 1] the result of          *)
(* normalising path_log[i]; the last result is output_path.                *)
(***************************************************************************)
Normalized(i) == IF i < Len(path_log) THEN path_log[i + 1] ELSE output_path
NamesDirectory(path) ==
  path # <<>> /\ (path[Len(path)] = "/" \/ is_directory(path, dirs))
AsDirectory(path) == IF path[Len(path)] = "/" THEN path ELSE Append(path, "/")

\* C16 as stated: normalising a normalised path changes nothing, for every path
\* and every file system.
C16_Idempotent ==
  \A i \in 2..Len(path_log) : Normalized(i) = path_log[i]

\* C16: normalising a normalised path changes nothing provided the normalised
\* path does not itself name an existing directory (a directory called like
\* the playlist gets the playlist name appended once more); and a path with a
\* trailing slash or naming an existing directory becomes that directory, one
\* slash, index.m3u8.
C16_IdempotentUnlessDirectory ==
  /\ \A i \in 2..Len(path_log) :
       ~is_directory(path_log[i], dirs) => Normalized(i) = path_log[i]
  /\ \A i \in 1..Len(path_log) :
       NamesDirectory(path_log[i]) =>
         Normalized(i) = AsDirectory(path_log[i]) \o IndexName

\* An existing directory without trailing slash, normalised twice.
C16_Witness ==
  /\ Len(path_log) = 2
  /\ path_log[1] # <<>>
  /\ path_log[1][Len(path_log[1])] # "/"
  /\ is_directory(path_log[1], dirs)
  /\ path_log[2] = path_log[1] \o <<"/">> \o IndexName
  /\ output_path = path_log[2]

(***************************************************************************)
(* Properties of utils::set_hls_output_options (SpecHls).                  *)
(***************************************************************************)
\* max(2, floor(60 * m / s)) for m, s > 0, computed without forming 60 * m.
RetainedSegments(m, s) ==
  LET q == SecondsPerMinute * (m \div s) + (SecondsPerMinute * (m % s)) \div s
  IN IF q < 2 THEN 2 ELSE q

\* C17: for every segment duration s > 0 and retention window m > 0 the muxer
\* is given hls_list_size = max(2, floor(60 * m / s)), the copy output from the
\* copy pair and the rendition outputs from the encode pair.  The int product
\* max_keep_minutes * 60 overflows for m > INT_MAX / 60, where the statement
\* fails.
C17_ListSize ==
  /\ (pc \notin {"hls_copy"}
      /\ args.copy_hls_time_sec > 0 /\ args.copy_max_keep_minutes > 0)
       => hls_list_size.copy = Some(RetainedSegments(args.copy_max_keep_minutes,
                                                     args.copy_hls_time_sec))
  /\ (pc \notin {"hls_copy", "hls_encode"}
      /\ args.encode_hls_time_sec > 0 /\ args.encode_max_keep_minutes > 0)
       => hls_list_size.encode = Some(RetainedSegments(args.encode_max_keep_minutes,
                                                       args.encode_hls_time_sec))

(***************************************************************************)
(* Routing of a packet in distribute_outputs.  `events` holds what was     *)
(* done with the packet read last, the read itself first.                  *)
(***************************************************************************)
PacketRead == events # <<>>
PacketStream == events[1].i
\* distribute_outputs has returned for the packet read last.
Distributed == PacketRead /\ pc \in {"rl_check", "rl_exit"}
\* The renditions the packet was handed to by the audio relay, in order.
RelaysOf ==
  LET rel == SelectSeq(events, LAMBDA e : e.ev = "audio")
  IN [n \in 1..Len(rel) |-> rel[n].i]
\* The rendition outputs that declared an audio stream, in ladder order.
AudioTargets ==
  SelectSeq([i \in DOMAIN state.outputs |-> i], LAMBDA i : state.outputs[i].astream)
IsAudioPacket ==
  PacketRead /\ state.audio_index >= 0 /\ PacketStream = state.audio_index

\* C18 as claimed: only packets of the video stream reach the decoder; a packet
\* of the audio stream is never decoded or encoded, and once distributed it was
\* relayed once to every rendition with an audio stream and written once to the
\* copy output.
C18_AudioRelayedToAll ==
  /\ (PacketRead /\ EventCount("send") > 0) => PacketStream = state.video_index
  /\ IsAudioPacket =>
       /\ EventCount("send") + EventCount("sws_init") + EventCount("encode") = 0
       /\ Distributed => (RelaysOf = AudioTargets /\ EventCount("copy") = 1)

\* C18, amended: only packets of the video stream reach the decoder, and only
\* packets of the audio stream are relayed.  A packet of the audio stream is
\* never decoded or encoded; it is handed at most once to each rendition with an
\* audio stream, in ladder order, and then at most once to the copy output.  When
\* distribute_outputs returns 0 it went once to every such rendition and once
\* to the copy output; when the relay to one rendition fails, the renditions
\* after it and the copy output do not get the packet.
C18_AudioRelayOnly ==
  /\ (PacketRead /\ EventCount("send") > 0) => PacketStream = state.video_index
  /\ (PacketRead /\ EventCount("audio") > 0) => IsAudioPacket
  /\ IsAudioPacket =>
       /\ EventCount("send") + EventCount("sws_init") + EventCount("encode") = 0
       /\ \E m \in 0..Len(AudioTargets) : RelaysOf = SubSeq(AudioTargets, 1, m)
       /\ EventCount("copy") <= 1
       /\ EventCount("copy") = 1 =>
            (RelaysOf = AudioTargets /\ events[Len(events)].ev = "copy")
       /\ pc = "rl_check" => EventCount("copy") = 1
       /\ (pc = "rl_exit" /\ fault = "audio_relay") =>
            (RelaysOf # <<>> /\ EventCount("copy") = 0)

\* The relay to the second rendition failed: the third and the copy output
\* did not get the audio packet.
C18_Witness ==
  /\ pc = "rl_exit"
  /\ fault = "audio_relay"
  /\ IsAudioPacket
  /\ AudioTargets = LadderOrder
  /\ RelaysOf = <<1, 2>>
  /\ EventCount("copy") = 0

IsVideoPacket == PacketRead /\ PacketStream = state.video_index

\* C19: for a video packet the copy write is attempted at most once per read
\* iteration, and only after every rendition encode of every frame decoded from
\* the packet was attempted (it is the last thing done with the packet); when a
\* rendition encode fails it is not attempted; when distribute_outputs returns 0
\* it was attempted exactly once, whether the packet gave zero, one or several
\* frames.
C19_CopyAfterAllEncodes ==
  IsVideoPacket =>
    /\ EventCount("copy") <= 1
    /\ EventCount("copy") = 1 =>
         /\ events[Len(events)].ev = "copy"
         /\ \A k \in 1..frames : EncodesOf(k) = LadderOrder
    /\ (pc = "rl_exit" /\ fault = "encode") => EventCount("copy") = 0
    /\ pc = "rl_check" => EventCount("copy") = 1

\* A video packet that gave two frames: six encodes, then one copy write.
C19_Witness ==
  /\ pc = "rl_check"
  /\ IsVideoPacket
  /\ frames = 2
  /\ EncodesOf(1) = LadderOrder
  /\ EncodesOf(2) = LadderOrder
  /\ EventCount("copy") = 1
  /\ events[Len(events)].ev = "copy"

(***************************************************************************)
(* C20.  When a session attempt ended by a setup failure (stream probing   *)
(* after the input was opened, no video stream, decoder, copy output, a    *)
(* rendition output part-way through the ladder, frame or audio packet     *)
(* allocation), everything the attempt had opened, partially initialised   *)
(* outputs included, has been released when the controller sleeps, starts  *)
(* the next iteration or exits.  The input context after a failed          *)
(* avformat_find_stream_info, the copy context after a failure inside      *)
(* open_copy_output and the local EncodeOutput of the failing rendition    *)
(* are never released.                                                     *)
(***************************************************************************)
C20_SetupFailureReleasesAll ==
  (fault \in SetupFaults \cup {"stream_info"}
   /\ pc \in {"sleep", "loop_top", "exited"})
    => lost = {}

(***************************************************************************)
(* Order of the releases of a session that reached run_loop.               *)
(***************************************************************************)
Reverse(q) == [k \in 1..Len(q) |-> q[Len(q) + 1 - k]]
TornDown == pc = "decide" /\ outcome # "none"

\* C21 as claimed: after the teardown the releases are the acquisitions in
\* reverse order.
C21_ReverseOfAcquisition ==
  TornDown => ReleasedIn(state, pkt) = Reverse(AcquiredIn(state, pkt))

\* The order of the amended statement, written out.
TeardownSequence ==
  <<<<"pkt", 0>>, <<"audio_pkt", 0>>, <<"decoded", 0>>, <<"copy_ctx", 0>>,
    <<"fmt", 1>>, <<"venc", 1>>, <<"sws_frame", 1>>, <<"sws", 1>>, <<"enc_pkt", 1>>,
    <<"fmt", 2>>, <<"venc", 2>>, <<"sws_frame", 2>>, <<"sws", 2>>, <<"enc_pkt", 2>>,
    <<"fmt", 3>>, <<"venc", 3>>, <<"sws_frame", 3>>, <<"sws", 3>>, <<"enc_pkt", 3>>,
    <<"vdec", 0>>, <<"in_ctx", 0>>>>

\* C21, amended: the teardown releases every handle the session acquired, once,
\* in a fixed order that is the reverse of the acquisitions only in part: the
\* read packet, the audio-relay packet and the decoded frame first (the reverse
\* of their acquisition), then the copy muxer, then the rendition outputs in
\* ladder order (low first), each as muxer, encoder, scratch frame, scaler,
\* packet buffer, then the decoder and last the input context.  The copy muxer
\* and the renditions are released in the order they were acquired, not the
\* reverse.
C21_TeardownOrder ==
  TornDown =>
    ReleasedIn(state, pkt) = SelectSeq(TeardownSequence,
                                       LAMBDA x : HandleOf(state, pkt, x).acq > 0)

\* A session that built its scalers, torn down: every handle released.
C21_Witness ==
  /\ TornDown
  /\ AcquiredIn(state, pkt) = <<<<"in_ctx", 0>>, <<"vdec", 0>>, <<"copy_ctx", 0>>>>
                             \o PerRendition(<<"fmt", "venc", "enc_pkt">>, Len(Renditions))
                             \o <<<<"decoded", 0>>, <<"audio_pkt", 0>>, <<"pkt", 0>>>>
                             \o PerRendition(<<"sws", "sws_frame">>, Len(Renditions))
  /\ Len(ReleasedIn(state, pkt)) = Len(AcquiredIn(state, pkt))
  /\ ReleasedIn(state, pkt)[1] = <<"pkt", 0>>
  /\ ReleasedIn(state, pkt)[4] = <<"copy_ctx", 0>>
  /\ ReleasedIn(state, pkt)[5] = <<"fmt", 1>>
  /\ ReleasedIn(state, pkt)[21] = <<"in_ctx", 0>>

(***************************************************************************)
(* The repair of the copy path against the algorithm as specified          *)
(* (SpecCopy): fill, floor the dts at the cursor, floor the pts at the     *)
(* dts, advance the cursor.                                                *)
(***************************************************************************)
Max(a, b) == IF a >= b THEN a ELSE b
Unknown(t) == t = AV_NOPTS_VALUE
\* Step 1 of the specified algorithm for a packet with cursor C.
FilledPts(p, C) == IF Unknown(p.pts) /\ Unknown(p.dts) THEN C
                   ELSE IF Unknown(p.pts) THEN p.dts ELSE p.pts
FilledDts(p, C) == IF Unknown(p.pts) /\ Unknown(p.dts) THEN C
                   ELSE IF Unknown(p.dts) THEN p.pts ELSE p.dts
SpecifiedDts(p, C) == Max(FilledDts(p, C), C)
SpecifiedPts(p, C) == Max(FilledPts(p, C), SpecifiedDts(p, C))
SpecifiedCursor(p, C) == SpecifiedDts(p, C) + Max(p.duration, 1)

\* C22: for every packet of a stream with a cursor, whatever its pts, dts
\* (known or unknown) and duration and whatever the cursor C, the repaired
\* packet and the new cursor are those of the specified algorithm: both unknown
\* gives pts = dts = C, only pts unknown pts = dts, only dts unknown dts = pts,
\* then dts = max(dts, C), pts = max(pts, dts), C = dts + max(duration, 1);
\* neither repaired timestamp is the unknown sentinel, and duration and stream
\* index are not touched.
C22_RepairAsSpecified ==
  CopyInRange =>
    LET p == copy_hist.in
        C == copy_hist.before[CopyStream]
    IN /\ copy_hist.out.dts = SpecifiedDts(p, C)
       /\ copy_hist.out.pts = SpecifiedPts(p, C)
       /\ copy_hist.after[CopyStream] = SpecifiedCursor(p, C)
       /\ ~Unknown(copy_hist.out.pts)
       /\ ~Unknown(copy_hist.out.dts)
       /\ copy_hist.out.duration = p.duration
       /\ copy_hist.out.stream_index = p.stream_index
       /\ pkt.f = copy_hist.out

\* Only the dts unknown, the pts ahead of the cursor: the dts takes the pts.
C22_Witness ==
  /\ CopyInRange
  /\ Unknown(copy_hist.in.dts)
  /\ ~Unknown(copy_hist.in.pts)
  /\ copy_hist.in.pts > copy_hist.before[CopyStream]
  /\ copy_hist.out.dts = copy_hist.in.pts
  /\ copy_hist.in.duration <= 0
  /\ copy_hist.after[CopyStream] = copy_hist.in.pts + 1

\* C23: within a session no cursor of the copy path ever decreases, whatever
\* the packets (any stream, negative, out-of-order or unknown timestamps, zero
\* or negative duration): after every repair each cursor is at least what it
\* was before, the cursor of the packet's stream is larger, and no cursor is
\* below the 0 it started from.
C23_CursorNeverDecreases ==
  copy_hist.n > 0 =>
    /\ state.copy_next_pts = copy_hist.after
    /\ DOMAIN copy_hist.after = DOMAIN copy_hist.before
    /\ \A j \in DOMAIN copy_hist.before :
         /\ copy_hist.after[j] >= copy_hist.before[j]
         /\ copy_hist.before[j] >= 0
    /\ CopyInRange => copy_hist.after[CopyStream] > copy_hist.before[CopyStream]

\* A second packet of a stream, with a dts behind the cursor and a negative
\* duration.
C23_Witness ==
  /\ CopyInRange
  /\ copy_hist.prev.seen
  /\ ~Unknown(copy_hist.in.dts)
  /\ copy_hist.in.dts < 0
  /\ copy_hist.in.duration < 0
  /\ copy_hist.before[CopyStream] > 0
  /\ copy_hist.after[CopyStream] = copy_hist.before[CopyStream] + 1

\* The scaler constructions and the encodes of the packet in flight, in order.
FrameWork == SelectSeq(events, LAMBDA e : e.ev \in {"sws_init", "encode"})
\* Positions in FrameWork of the events `ev` of rendition i.
EventsAt(ev, i) == {n \in DOMAIN FrameWork : FrameWork[n].ev = ev /\ FrameWork[n].i = i}

\* C24: in a session the scaler and the scratch frame of a rendition are built
\* at most once, and it is the first decoded frame that builds them: as soon
\* as a frame has passed the scaler loop every rendition has exactly one
\* scaler and one scratch frame, later frames build nothing, and every encode
\* of a rendition comes after its scaler was built.
C24_ScalerBuiltOnceAtFirstFrame ==
  /\ \A i \in DOMAIN state.outputs :
       LET out == state.outputs[i]
       IN /\ out.sws.acq <= 1
          /\ out.sws_frame.acq <= out.sws.acq
          /\ (pc = "dist_recv" /\ frames >= 1) =>
               out.sws.acq = 1 /\ out.sws_frame.acq = 1 /\ out.sws.rel = 0
  /\ LET fw == FrameWork
     IN \A n \in DOMAIN fw :
          LET e == fw[n]
              out == state.outputs[e.i]
          IN IF e.ev = "sws_init"
               THEN /\ e.frame = 1
                    /\ fault # "scaler" => out.sws.acq = 1
                    /\ \A m \in 1..(n - 1) : fw[m].i # e.i
               ELSE /\ out.sws.acq = 1
                    /\ out.sws_frame.acq = 1
                    /\ \A m \in (n + 1)..Len(fw) :
                         ~(fw[m].ev = "sws_init" /\ fw[m].i = e.i)

\* The second frame of a packet was encoded for every rendition with the
\* scalers the first frame built.
C24_Witness ==
  /\ pc = "dist_recv"
  /\ frames = 2
  /\ Len(state.outputs) = Len(Renditions)
  /\ \A i \in DOMAIN state.outputs :
       /\ state.outputs[i].sws.acq = 1
       /\ \E n \in EventsAt("sws_init", i) : FrameWork[n].frame = 1
       /\ \E n \in EventsAt("encode", i) : FrameWork[n].frame = 2

\* The results of av_read_frame that run_loop answers with a retry.
Timeouts == {AVERROR_EAGAIN, AVERROR_ETIMEDOUT}

\* C25: a read that fails with EAGAIN or ETIMEDOUT never ends the session:
\* the run loop goes back to its test of the stop flag with the session state
\* (cursors, fallback counter, packet count, outputs), the packet and the
\* fault record unchanged, however many timeouts came before; the loop is left
\* from its head only when the stop flag was seen set or the read returned
\* something other than a timeout.
C25_TimeoutKeepsSession ==
  [][
    /\ (pc = "rl_read" /\ pc' # pc /\ loop_ret' \in Timeouts) =>
          /\ pc' = "rl_check"
          /\ state' = state
          /\ pkt' = pkt
          /\ UNCHANGED <<fault, outcome, ret, open_attempts, slept, exit_code>>
    /\ (pc = "rl_check" /\ pc' # pc /\ loop_ret \in Timeouts) =>
          /\ state' = state
          /\ IF g_stop_requested
               THEN pc' = "rl_exit" /\ loop_ret' = AVERROR_EXIT
               ELSE pc' = "rl_read"
    /\ (pc \in {"rl_check", "rl_read"} /\ pc' = "rl_exit") =>
          \/ pc = "rl_check" /\ g_stop_requested /\ loop_ret' = AVERROR_EXIT
          \/ pc = "rl_read" /\ loop_ret' \notin Timeouts
  ]_vars

\* A read timed out, the stop flag was clear at the next test, and the loop
\* is about to read again with the session as it was opened.
C25_Witness ==
  /\ pc = "rl_read"
  /\ loop_ret = AVERROR_ETIMEDOUT
  /\ ~g_stop_requested
  /\ Len(state.outputs) = Len(Renditions)
  /\ state.packet_count = 0
  /\ outcome = "none"

\* The encode events the step added to `events`.
NewEncodes ==
  SelectSeq(SubSeq(events', Len(events) + 1, Len(events')),
            LAMBDA e : e.ev = "encode")

\* C26: the fallback counter is 0 when the run loop of a session starts; a
\* decoded frame without a best-effort timestamp that reaches the encoders
\* takes the counter's value and raises it by exactly 1, a frame with a
\* timestamp takes its own timestamp and leaves the counter alone; every
\* rendition of the frame is handed the same value for rescaling; no other
\* step of a session changes the counter.
C26_FallbackCounter ==
  [][
    /\ (pc = "run_loop" /\ pc' = "rl_check") => state'.fallback_pts = 0
    /\ (pc = "dist_recv" /\ frames' = frames + 1) =>
          LET encs == NewEncodes
          IN /\ \A n \in DOMAIN encs :
                  /\ encs[n].in_pts = encs[1].in_pts
                  /\ encs[n].best_effort = encs[1].best_effort
                  /\ encs[n].i = n
             /\ IF encs = <<>>
                  THEN state'.fallback_pts = state.fallback_pts
                  ELSE IF encs[1].best_effort = AV_NOPTS_VALUE
                    THEN /\ encs[1].in_pts = state.fallback_pts
                         /\ state'.fallback_pts = state.fallback_pts + 1
                    ELSE /\ encs[1].in_pts = encs[1].best_effort
                         /\ state'.fallback_pts = state.fallback_pts
    /\ (state'.fallback_pts # state.fallback_pts) =>
          \/ pc = "dist_recv" /\ frames' = frames + 1
          \/ state'.fallback_pts = 0
  ]_vars

\* Two frames without a timestamp in one packet: the second one was encoded
\* for every rendition with the value 1, and the counter stands at 2.
C26_Witness ==
  /\ pc = "dist_recv"
  /\ frames = 2
  /\ state.fallback_pts = 2
  /\ \A i \in DOMAIN state.outputs :
       /\ \E n \in EventsAt("encode", i) :
            /\ FrameWork[n].frame = 1
            /\ FrameWork[n].best_effort = AV_NOPTS_VALUE
            /\ FrameWork[n].in_pts = 0
       /\ \E n \in EventsAt("encode", i) :
            /\ FrameWork[n].frame = 2
            /\ FrameWork[n].best_effort = AV_NOPTS_VALUE
            /\ FrameWork[n].in_pts = 1

\* C27: the cancellation flag only goes from false to true and stays true; the
\* step that sets it is the signal handler's and changes nothing else of the
\* program, and no step of the pipeline thread (any step that changes the
\* position, the session, the packet or the results) writes the flag.
C27_FlagSetOnlyByHandler ==
  [][
    /\ g_stop_requested => g_stop_requested'
    /\ (g_stop_requested' # g_stop_requested) =>
          UNCHANGED <<pc, cfgVars, ret, exit_code, state, loopVars, outcome, fault,
                      open_attempts, open_log, slept, lost>>
  ]_vars

\* The flag was set while a packet was being distributed and is still set
\* when the session has been torn down.
C27_Witness ==
  /\ g_stop_requested
  /\ stop_where = "in_flight"
  /\ pc = "decide"
  /\ outcome = AVERROR_EXIT

\* The buffers of a session: the decode frame, the audio packet and the read
\* packet.
SessionBuffers == {<<"decoded", 0>>, <<"audio_pkt", 0>>, <<"pkt", 0>>}

\* C28: every session, the ones after a reconnect included, enters its run
\* loop with fresh state: one cursor per input stream, all 0; fallback counter
\* 0; packet count 0; no rendition with a scaler or a scratch frame; a decode
\* frame and an audio packet allocated in this session and not yet released,
\* no read packet and no events of an earlier packet.  When a session has
\* ended, none of its buffers is still held.
C28_FreshSession ==
  /\ pc = "run_loop" =>
        /\ Len(state.copy_next_pts) = NbStreams
        /\ \A j \in DOMAIN state.copy_next_pts : state.copy_next_pts[j] = 0
        /\ state.fallback_pts = 0
        /\ state.packet_count = 0
        /\ Len(state.outputs) = Len(Renditions)
        /\ \A i \in DOMAIN state.outputs :
             /\ state.outputs[i].sws = NullHandle
             /\ state.outputs[i].sws_frame = NullHandle
        /\ state.decoded = Acquire(NullHandle)
        /\ state.audio_pkt = Acquire(NullHandle)
        /\ pkt = NoPacket
        /\ frames = 0
        /\ events = <<>>
  /\ (pc \in {"decide", "sleep"} /\ outcome # "none") =>
        /\ HeldIn(state, pkt) \cap SessionBuffers = {}
        /\ lost \cap SessionBuffers = {}

\* The second session of a process, after a first one that was opened, ended
\* and was followed by the reconnect sleep, is about to enter its run loop
\* (both opens succeeded: the log of open attempts restarts after a success).
C28_Witness ==
  /\ pc = "run_loop"
  /\ open_attempts = 2
  /\ slept > 0
  /\ Len(open_log) = 1
  /\ open_log[1].ev = "ok"

\* The audio events of the packet being distributed.
AudioRelays == SelectSeq(events, LAMBDA e : e.ev = "audio")

\* C29: the audio relay leaves the packet read from the source alone: every
\* rendition's relay takes its reference from the same packet, with the pts,
\* dts, duration and stream index that the packet still has when it reaches
\* the copy-path repair, and the rescaled values and the output's stream index
\* go into the reference only.
C29_RelayKeepsSourcePacket ==
  IsAudioPacket =>
  LET rel == AudioRelays
  IN /\ \A n \in DOMAIN rel :
          /\ rel[n].src = rel[1].src
          /\ rel[n].src.valid
          /\ rel[n].src.stream_index = state.audio_index
          /\ \E q \in 1..MaxTimeBaseRatio :
               rel[n].out = write_audio_packet_to_output(rel[n].src, AudioOutIndex, q)
     /\ (pc = "dist_copy" /\ rel # <<>>) => pkt.f = rel[1].src

\* An audio packet with timestamps was relayed to all renditions on a finer
\* time base and now stands before the copy-path repair with what was read.
C29_Witness ==
  /\ pc = "dist_copy"
  /\ Len(AudioRelays) = Len(Renditions)
  /\ pkt.f.pts = MaxTs
  /\ pkt.f.duration = MaxDur
  /\ \A n \in DOMAIN AudioRelays :
       /\ AudioRelays[n].out.pts # pkt.f.pts
       /\ AudioRelays[n].out.duration # pkt.f.duration
       /\ AudioRelays[n].out.stream_index = AudioOutIndex

\* C30: with a reconnect delay above 0 and the stop flag clear, a failed open
\* and the end of a session (end of stream or mid-stream error) are followed by
\* the sleep of reconnect_sec, the sleep by the loop top and the loop top by a
\* new open attempt; the process exits only on a setup fault, with code 3, 4
\* or 5, never with 0 or 2.
C30_ReconnectsForever ==
  [][
    (reconnect_sec > 0 /\ ~g_stop_requested /\ pc' # pc) =>
      /\ (pc = "open_input" /\ IsNegative(ret')) =>
            pc' = "sleep" /\ slept' = reconnect_sec
      /\ pc = "decide" => pc' = "sleep" /\ slept' = reconnect_sec
      /\ pc = "sleep" => pc' = "loop_top"
      /\ pc = "loop_top" => pc' = "open_input" /\ open_attempts' = open_attempts
      /\ (pc = "open_input" /\ ~IsNegative(ret')) =>
            pc' = "find_streams" /\ open_attempts' = open_attempts + 1
      /\ pc' = "exited" =>
            /\ fault' \in SetupFaults
            /\ exit_code' \in {ExitDiscovery, ExitOutput, ExitAlloc}
            /\ pc \in {"find_streams", "open_decoder", "open_outputs", "alloc_shared"}
  ]_vars

\* The stop flag clear and reconnect enabled: a session was opened and has
\* ended, the controller slept reconnect_sec and is about to open the input
\* again.
C30_Witness ==
  /\ reconnect_sec > 0
  /\ ~g_stop_requested
  /\ pc = "open_input"
  /\ open_attempts = 1
  /\ open_log # <<>>
  /\ open_log[Len(open_log)].ev = "ok"
  /\ slept = reconnect_sec
  /\ exit_code = ExitOk

====
